---------------------------- MODULE Spec2Model ----------------------------
(***************************************************************************)
(* Model of streamlit_app.py: the chiefdom-name mapper, the extraction of  *)
(* one normalized row per survey record, the district / chiefdom roll-ups  *)
(* and the coverage classification.                                        *)
(*                                                                         *)
(* Text is modelled as a sequence of code points, so that str.strip,       *)
(* str.upper, the substring test `a in b`, the regular-expression search   *)
(* and sorted() are computed the way Python computes them.  The comment    *)
(* next to every encoded text gives the text.                              *)
(***************************************************************************)
EXTENDS Integers, Sequences, FiniteSets, TLC

VARIABLES
    pc,                 \* position of the script
    chiefdom_name,      \* argument of the map_chiefdom_name call under study
    mapped,             \* its return value
    df,                 \* the survey spreadsheet: one record per row
    df_columns,         \* df.columns
    idx,                \* rows of df the loop of line 116 has been through
    districts,          \* the lists of line 110
    chiefdoms,
    total_enrollment,
    total_itns,
    distributed_itns,
    itn_df,             \* the frame extract_itn_data_from_excel returns
    overview,           \* the overview metrics of lines 436-449
    fig_bo_itn,         \* the panels of the BO dashboard
    fig_bombali_itn,    \* the panels of the BOMBALI dashboard
    analysis,           \* the analysis metrics of lines 885-929
    detailed_itn_coverage,  \* the rows of the detailed table
    summary_data,       \* the entries generate_simple_summary returns
    coverage_percent,   \* argument of the classification under study
    coverage_color,     \* its colour
    status              \* its status label

mapper_vars ==
    <<chiefdom_name, mapped>>

classifier_vars ==
    <<coverage_percent, coverage_color, status>>

table_vars ==
    <<overview, fig_bo_itn, fig_bombali_itn, analysis, detailed_itn_coverage, summary_data>>

extract_vars ==
    <<df, df_columns, idx, districts, chiefdoms, total_enrollment, total_itns,
      distributed_itns, itn_df>>

vars ==
    <<pc, mapper_vars, classifier_vars, extract_vars, table_vars>>

(***************************************************************************)
(* Python values.                                                          *)
(***************************************************************************)

\* None / NaN for a text value: a sequence that is no text (no code point is negative).
None ==
    <<-1>>

\* pd.isna on a text-or-None value.
isna(x) ==
    x = None

Min(S) ==
    CHOOSE x \in S : \A y \in S : x <= y

\* Characters str.strip() removes and the regular expression's \s matches:
\* tab, newline, vertical tab, form feed, carriage return, space.
Whitespace ==
    {9, 10, 11, 12, 13, 32}

\* str.upper(), on the ASCII letters.
upper_char(c) ==
    IF c >= 97 /\ c <= 122 THEN c - 32 ELSE c

upper(s) ==
    [i \in 1..Len(s) |-> upper_char(s[i])]

\* str.strip(): drop the leading and the trailing whitespace.
strip(s) ==
    LET keep == {i \in 1..Len(s) : s[i] \notin Whitespace}
    IN  IF keep = {} THEN <<>>
        ELSE SubSeq(s, Min(keep), CHOOSE i \in keep : \A j \in keep : j <= i)

\* Python's `a in b` on two texts: a occurs in b as a contiguous run.
str_in(a, b) ==
    \E i \in 0..(Len(b) - Len(a)) : SubSeq(b, i + 1, i + Len(a)) = a

(***************************************************************************)
(* create_chiefdom_mapping: the alias table, a dict in insertion order.    *)
(***************************************************************************)
create_chiefdom_mapping ==
  <<
     [key |-> <<66, 111, 32, 67, 105, 116, 121>>,
      value |-> <<66, 79, 32, 84, 79, 87, 78>>],  \* 47: "Bo City" -> "BO TOWN"
     [key |-> <<66, 97, 100, 106, 105, 97>>,
      value |-> <<66, 65, 68, 74, 73, 65>>],  \* 48: "Badjia" -> "BADJIA"
     [key |-> <<66, 97, 114, 103, 98, 111>>,
      value |-> <<66, 65, 71, 66, 79>>],  \* 49: "Bargbo" -> "BAGBO"
     [key |-> <<66, 97, 103, 98, 119, 101>>,
      value |-> <<66, 65, 71, 66, 87, 69, 40, 66, 65, 71, 66, 69, 41>>],  \* 50: "Bagbwe" -> "BAGBWE(BAGBE)"
     [key |-> <<66, 97, 111, 109, 97>>,
      value |-> <<66, 79, 65, 77, 65>>],  \* 51: "Baoma" -> "BOAMA"
     [key |-> <<66, 111, 110, 103, 111, 114>>,
      value |-> <<66, 79, 78, 71, 79, 82>>],  \* 52: "Bongor" -> "BONGOR"
     [key |-> <<66, 117, 109, 112, 101, 104>>,
      value |-> <<66, 85, 77, 80, 69, 32, 78, 71, 65, 79>>],  \* 53: "Bumpeh" -> "BUMPE NGAO"
     [key |-> <<71, 98, 111>>,
      value |-> <<71, 66, 79>>],  \* 54: "Gbo" -> "GBO"
     [key |-> <<74, 97, 105, 97, 109, 97>>,
      value |-> <<74, 65, 73, 65, 77, 65>>],  \* 55: "Jaiama" -> "JAIAMA"
     [key |-> <<75, 97, 107, 117, 97>>,
      value |-> <<75, 65, 75, 85, 65>>],  \* 56: "Kakua" -> "KAKUA"
     [key |-> <<75, 111, 109, 98, 111, 121, 97>>,
      value |-> <<75, 79, 77, 66, 79, 89, 65>>],  \* 57: "Komboya" -> "KOMBOYA"
     [key |-> <<76, 117, 103, 98, 117>>,
      value |-> <<76, 85, 71, 66, 85>>],  \* 58: "Lugbu" -> "LUGBU"
     [key |-> <<78, 105, 97, 119, 97, 32, 76, 101, 110, 103, 97>>,
      value |-> <<78, 73, 65, 87, 65, 32, 76, 69, 78, 71, 65>>],  \* 59: "Niawa Lenga" -> "NIAWA LENGA"
     [key |-> <<83, 101, 108, 101, 110, 103, 97>>,
      value |-> <<83, 69, 76, 69, 78, 71, 65>>],  \* 60: "Selenga" -> "SELENGA"
     [key |-> <<84, 105, 110, 107, 111, 107, 111>>,
      value |-> <<84, 73, 75, 79, 78, 75, 79>>],  \* 61: "Tinkoko" -> "TIKONKO"
     [key |-> <<86, 97, 108, 117, 110, 105, 97>>,
      value |-> <<86, 65, 76, 85, 78, 73, 65>>],  \* 62: "Valunia" -> "VALUNIA"
     [key |-> <<87, 111, 110, 100, 101>>,
      value |-> <<87, 79, 78, 68, 69>>],  \* 63: "Wonde" -> "WONDE"
     [key |-> <<66, 105, 114, 105, 119, 97>>,
      value |-> <<66, 73, 82, 73, 87, 65>>],  \* 66: "Biriwa" -> "BIRIWA"
     [key |-> <<66, 111, 109, 98, 97, 108, 105, 32, 83, 101, 98, 111, 114, 97>>,
      value |-> <<66, 79, 77, 66, 65, 76, 73, 32, 83, 69, 66, 79, 82, 65>>],  \* 67: "Bombali Sebora" -> "BOMBALI SEBORA"
     [key |-> <<66, 111, 109, 98, 97, 108, 105, 32, 83, 101, 114, 114, 121>>,
      value |-> <<66, 79, 77, 66, 65, 76, 73, 32, 83, 73, 65, 82, 73>>],  \* 68: "Bombali Serry" -> "BOMBALI SIARI"
     [key |-> <<71, 98, 97, 110, 116, 105, 32, 40, 66, 111, 109, 98, 97, 108, 105, 41>>,
      value |-> <<71, 66, 65, 78, 84, 73>>],  \* 69: "Gbanti (Bombali)" -> "GBANTI"
     [key |-> <<71, 98, 97, 110, 116, 105>>,
      value |-> <<71, 66, 65, 78, 84, 73>>],  \* 70: "Gbanti" -> "GBANTI"
     [key |-> <<71, 98, 101, 110, 100, 101, 109, 98, 117>>,
      value |-> <<71, 66, 69, 78, 68, 69, 77, 66, 85>>],  \* 71: "Gbendembu" -> "GBENDEMBU"
     [key |-> <<75, 97, 109, 97, 114, 97, 110, 107, 97>>,
      value |-> <<75, 65, 77, 65, 82, 65, 78, 75, 65>>],  \* 72: "Kamaranka" -> "KAMARANKA"
     [key |-> <<77, 97, 103, 98, 97, 105, 109, 98, 97, 32, 78, 100, 111, 104, 97, 104, 117, 110>>,
      value |-> <<77, 65, 71, 66, 65, 73, 77, 66, 65, 32, 78, 68, 79, 82, 87, 65, 72, 85, 78>>],  \* 73: "Magbaimba Ndohahun" -> "MAGBAIMBA NDORWAHUN"
     [key |-> <<77, 97, 107, 97, 114, 105, 101>>,
      value |-> <<77, 65, 75, 65, 82, 73>>],  \* 74: "Makarie" -> "MAKARI"
     [key |-> <<77, 97, 114, 97>>,
      value |-> <<77, 65, 82, 65>>],  \* 75: "Mara" -> "MARA"
     [key |-> <<78, 103, 111, 119, 97, 104, 117, 110>>,
      value |-> <<78, 39, 71, 79, 87, 65, 72, 85, 78>>],  \* 76: "Ngowahun" -> "N'GOWAHUN"
     [key |-> <<80, 97, 107, 105, 32, 77, 97, 115, 97, 98, 111, 110, 103>>,
      value |-> <<80, 65, 75, 73, 32, 77, 65, 83, 65, 66, 79, 78, 71>>],  \* 77: "Paki Masabong" -> "PAKI MASABONG"
     [key |-> <<83, 97, 102, 114, 111, 107, 111, 32, 76, 105, 109, 98, 97>>,
      value |-> <<83, 65, 70, 82, 79, 75, 79, 32, 76, 73, 77, 66, 65>>],  \* 78: "Safroko Limba" -> "SAFROKO LIMBA"
     [key |-> <<77, 97, 107, 101, 110, 105, 32, 67, 105, 116, 121>>,
      value |-> <<77, 65, 75, 69, 78, 73, 32, 67, 73, 84, 89>>]  \* 79: "Makeni City" -> "MAKENI CITY"
  >>

\* `chiefdom_name in mapping`: the positions whose key is the name itself.
direct_match(name, mapping) ==
    {i \in DOMAIN mapping : mapping[i].key = name}

\* First loop: keys equal to the name once both are upper-cased.
case_insensitive_match(name, mapping) ==
    {i \in DOMAIN mapping : upper(mapping[i].key) = upper(name)}

\* Second loop: the key is in the name or the name is in the key, upper-cased.
partial_match(name, mapping) ==
    {i \in DOMAIN mapping :
        \/ str_in(upper(mapping[i].key), upper(name))
        \/ str_in(upper(name), upper(mapping[i].key))}

\* Variant: the substring loop runs before the case-insensitive loop.
map_chiefdom_name_partial_first(name_in, mapping) ==
    IF isna(name_in) THEN None
    ELSE LET name == strip(name_in)
         IN  IF direct_match(name, mapping) # {}
                 THEN mapping[Min(direct_match(name, mapping))].value
             ELSE IF partial_match(name, mapping) # {}
                 THEN mapping[Min(partial_match(name, mapping))].value
             ELSE IF case_insensitive_match(name, mapping) # {}
                 THEN mapping[Min(case_insensitive_match(name, mapping))].value
             ELSE name

\* Variant: the substring loop prefers the longest matching key.
map_chiefdom_name_longest(name_in, mapping) ==
    IF isna(name_in) THEN None
    ELSE LET name == strip(name_in)
             P == partial_match(name, mapping)
         IN  IF direct_match(name, mapping) # {}
                 THEN mapping[Min(direct_match(name, mapping))].value
             ELSE IF case_insensitive_match(name, mapping) # {}
                 THEN mapping[Min(case_insensitive_match(name, mapping))].value
             ELSE IF P # {}
                 THEN mapping[CHOOSE i \in P : \A j \in P :
                                 \/ Len(mapping[j].key) < Len(mapping[i].key)
                                 \/ (Len(mapping[j].key) = Len(mapping[i].key) /\ i <= j)].value
             ELSE name

\* Variant: the pass-through returns the argument as given, untrimmed.
map_chiefdom_name_untrimmed(name_in, mapping) ==
    IF isna(name_in) THEN None
    ELSE LET name == strip(name_in)
         IN  IF direct_match(name, mapping) # {}
                 THEN mapping[Min(direct_match(name, mapping))].value
             ELSE IF case_insensitive_match(name, mapping) # {}
                 THEN mapping[Min(case_insensitive_match(name, mapping))].value
             ELSE IF partial_match(name, mapping) # {}
                 THEN mapping[Min(partial_match(name, mapping))].value
             ELSE name_in

\* map_chiefdom_name: each loop returns at its first hit in table order.
map_chiefdom_name(name_in, mapping) ==
    IF isna(name_in) THEN None
    ELSE LET name == strip(name_in)
         IN  IF direct_match(name, mapping) # {}
                 THEN mapping[Min(direct_match(name, mapping))].value
             ELSE IF case_insensitive_match(name, mapping) # {}
                 THEN mapping[Min(case_insensitive_match(name, mapping))].value
             ELSE IF partial_match(name, mapping) # {}
                 THEN mapping[Min(partial_match(name, mapping))].value
             ELSE name

(***************************************************************************)
(* Texts the survey and the checks use.                                    *)
(***************************************************************************)
\* "Bombali"
S_Bombali ==
    <<66, 111, 109, 98, 97, 108, 105>>

\* "mara"
S_mara ==
    <<109, 97, 114, 97>>

\* "bargbo"
S_bargbo ==
    <<98, 97, 114, 103, 98, 111>>

\* "Unknown Place"
S_Unknown_Place ==
    <<85, 110, 107, 110, 111, 119, 110, 32, 80, 108, 97, 99, 101>>

\* "  Unknown Place \n"
S_Unknown_Place_padded ==
    <<32, 32, 85, 110, 107, 110, 111, 119, 110, 32, 80, 108, 97, 99, 101, 32, 10>>

\* "Kenema"
S_Kenema ==
    <<75, 101, 110, 101, 109, 97>>

\* "Bo"
S_Bo ==
    <<66, 111>>

\* "City"
S_City ==
    <<67, 105, 116, 121>>

\* "Gbanti North"
S_Gbanti_North ==
    <<71, 98, 97, 110, 116, 105, 32, 78, 111, 114, 116, 104>>

\* " \t "
S_blank ==
    <<32, 9, 32>>

\* "Gbanti (Bombali)"
S_Gbanti_Bombali ==
    <<71, 98, 97, 110, 116, 105, 32, 40, 66, 111, 109, 98, 97, 108, 105, 41>>

\* "GBANTI"
S_GBANTI ==
    <<71, 66, 65, 78, 84, 73>>

\* "BAGBO"
S_BAGBO ==
    <<66, 65, 71, 66, 79>>

\* "MARA"
S_MARA ==
    <<77, 65, 82, 65>>

\* "Kamaranka"
S_Kamaranka ==
    <<75, 97, 109, 97, 114, 97, 110, 107, 97>>

\* "BOMBALI SEBORA"
S_BOMBALI_SEBORA ==
    <<66, 79, 77, 66, 65, 76, 73, 32, 83, 69, 66, 79, 82, 65>>

\* "BO TOWN"
S_BO_TOWN ==
    <<66, 79, 32, 84, 79, 87, 78>>

\* "Bo City"
S_Bo_City ==
    <<66, 111, 32, 67, 105, 116, 121>>

\* "Bargbo"
S_Bargbo ==
    <<66, 97, 114, 103, 98, 111>>

\* "Gbanti"
S_Gbanti ==
    <<71, 98, 97, 110, 116, 105>>

\* ""
S_empty ==
    <<>>

\* "District:"
label_District ==
    <<68, 105, 115, 116, 114, 105, 99, 116, 58>>

\* "Chiefdom:"
label_Chiefdom ==
    <<67, 104, 105, 101, 102, 100, 111, 109, 58>>

\* "BO"
S_BO ==
    <<66, 79>>

\* "BOMBALI"
S_BOMBALI ==
    <<66, 79, 77, 66, 65, 76, 73>>

\* "District: BO\nChiefdom: Bo City"
QR_BO_BoCity ==
    <<68, 105, 115, 116, 114, 105, 99, 116, 58, 32, 66, 79, 10, 67, 104, 105, 101, 102, 100, 111, 109, 58, 32, 66, 111, 32, 67, 105, 116, 121>>

\* "District: BO\nChiefdom: Bargbo\n"
QR_BO_Bargbo ==
    <<68, 105, 115, 116, 114, 105, 99, 116, 58, 32, 66, 79, 10, 67, 104, 105, 101, 102, 100, 111, 109, 58, 32, 66, 97, 114, 103, 98, 111, 10>>

\* "School: A\nDistrict: Bombali\nChiefdom: Gbanti (Bombali)"
QR_Bombali_GbantiBombali ==
    <<83, 99, 104, 111, 111, 108, 58, 32, 65, 10, 68, 105, 115, 116, 114, 105, 99, 116, 58, 32, 66, 111, 109, 98, 97, 108, 105, 10, 67, 104, 105, 101, 102, 100, 111, 109, 58, 32, 71, 98, 97, 110, 116, 105, 32, 40, 66, 111, 109, 98, 97, 108, 105, 41>>

\* "District: BOMBALI\nChiefdom:  Gbanti "
QR_BOMBALI_Gbanti ==
    <<68, 105, 115, 116, 114, 105, 99, 116, 58, 32, 66, 79, 77, 66, 65, 76, 73, 10, 67, 104, 105, 101, 102, 100, 111, 109, 58, 32, 32, 71, 98, 97, 110, 116, 105, 32>>

\* "School: A"
QR_NoLabels ==
    <<83, 99, 104, 111, 111, 108, 58, 32, 65>>

\* "District: BO"
QR_BO_NoChiefdom ==
    <<68, 105, 115, 116, 114, 105, 99, 116, 58, 32, 66, 79>>

\* "KAKUA"
S_KAKUA ==
    <<75, 65, 75, 85, 65>>

\* "District: BO\nChiefdom: Gbanti"
QR_BO_Gbanti ==
    <<68, 105, 115, 116, 114, 105, 99, 116, 58, 32, 66, 79, 10, 67, 104, 105, 101, 102, 100, 111, 109, 58, 32, 71, 98, 97, 110, 116, 105>>

\* "District: Kenema\nChiefdom: Nongowa"
QR_Kenema_Nongowa ==
    <<68, 105, 115, 116, 114, 105, 99, 116, 58, 32, 75, 101, 110, 101, 109, 97, 10, 67, 104, 105, 101, 102, 100, 111, 109, 58, 32, 78, 111, 110, 103, 111, 119, 97>>


(***************************************************************************)
(* extract_itn_data_from_excel.                                            *)
(*                                                                         *)
(* A numeric cell of the spreadsheet is NaN or a non-negative number; the  *)
(* number is held in tenths (15 is 1.5), so that int() is the truncation   *)
(* it is in Python.                                                        *)
(***************************************************************************)

\* An empty numeric cell.
NaN ==
    -1

notna(cell) ==
    cell # NaN

\* int(x) on a non-negative float: truncation.
int(cell) ==
    cell \div 10

\* range(1, 6)
range_1_6 ==
    1..5

\* df.columns, as the set of <<question, class_num>>; the left-at-school
\* column is <<"left", 0>>.
enrollment_col(class_num) ==
    <<"How many pupils are enrolled in Class ?", class_num>>

boys_col(class_num) ==
    <<"How many boys in Class received ITNs?", class_num>>

girls_col(class_num) ==
    <<"How many girls in Class received ITNs?", class_num>>

left_col ==
    <<"ITNs left at the school for pupils who were absent.", 0>>

\* df[col].iloc[idx] of a survey record.
cell_of(record, col) ==
    IF col = left_col THEN record.left
    ELSE IF col = enrollment_col(col[2]) THEN record.enrollment[col[2]]
    ELSE IF col = boys_col(col[2]) THEN record.boys[col[2]]
    ELSE record.girls[col[2]]

\* One pass of `if col in df.columns: v = df[col].iloc[idx]; if pd.notna(v): total += int(v)`.
add_cell(total, record, col, columns) ==
    IF col \in columns /\ notna(cell_of(record, col))
        THEN total + int(cell_of(record, col))
        ELSE total

\* The loop `for class_num in range(1, 6)` over one question, from class_num on.
RECURSIVE class_loop(_, _, _, _, _)
class_loop(total, record, question, class_num, columns) ==
    IF class_num \notin range_1_6 THEN total
    ELSE class_loop(add_cell(total, record, <<question, class_num>>, columns),
                    record, question, class_num + 1, columns)

\* Lines 138-146.
enrollment_total_of(record, columns) ==
    class_loop(0, record, enrollment_col(1)[1], 1, columns)

\* Lines 149-166.
itns_boys_total_of(record, columns) ==
    class_loop(0, record, boys_col(1)[1], 1, columns)

itns_girls_total_of(record, columns) ==
    class_loop(0, record, girls_col(1)[1], 1, columns)

\* Variant: the left-at-school cell is read inside the class loop and added
\* on each of its passes.
itns_left_total_in_class_loop(record, columns) ==
    IF left_col \in columns /\ notna(record.left)
        THEN Cardinality(range_1_6) * int(record.left)
        ELSE 0

\* Lines 168-173: read once, after the class loop; assigned, not accumulated.
itns_left_total_of(record, columns) ==
    IF left_col \in columns /\ notna(record.left) THEN int(record.left) ELSE 0

\* Variant: Total_ITNs counts the nets handed to pupils only.
itns_total_handed_out(record, columns) ==
    itns_boys_total_of(record, columns) + itns_girls_total_of(record, columns)

\* Line 176.
itns_total_of(record, columns) ==
    itns_boys_total_of(record, columns) + itns_girls_total_of(record, columns)
        + itns_left_total_of(record, columns)

\* Variant: the distributed total leaves the left-at-school nets out.
itns_distributed_without_left(record, columns) ==
    itns_boys_total_of(record, columns) + itns_girls_total_of(record, columns)

\* Line 177.
itns_distributed_of(record, columns) ==
    itns_boys_total_of(record, columns) + itns_girls_total_of(record, columns)
        + itns_left_total_of(record, columns)

(***************************************************************************)
(* re.search(label + r"\s*([^\n]+)", text): the group of the leftmost      *)
(* match, or None.  \s* is greedy and gives characters back only when      *)
(* [^\n]+ would otherwise match nothing.                                   *)
(***************************************************************************)
label_at(text, label, p) ==
    /\ p + Len(label) - 1 <= Len(text)
    /\ SubSeq(text, p, p + Len(label) - 1) = label

\* Number of whitespace characters from position q on.
RECURSIVE whitespace_run(_, _)
whitespace_run(text, q) ==
    IF q <= Len(text) /\ text[q] \in Whitespace
        THEN 1 + whitespace_run(text, q + 1)
        ELSE 0

\* Last position of the run of non-newline characters that starts at q.
RECURSIVE line_end(_, _)
line_end(text, q) ==
    IF q + 1 <= Len(text) /\ text[q + 1] # 10
        THEN line_end(text, q + 1)
        ELSE q

\* Start positions the group can have for the label found at p.
group_starts(text, label, p) ==
    LET q == p + Len(label)
    IN  {q + k : k \in {j \in 0..whitespace_run(text, q) :
                          q + j <= Len(text) /\ text[q + j] # 10}}

Max(S) ==
    CHOOSE x \in S : \A y \in S : y <= x

re_search_group(label, text) ==
    LET hits == {p \in 1..Len(text) :
                    label_at(text, label, p) /\ group_starts(text, label, p) # {}}
    IN  IF hits = {} THEN None
        ELSE LET start == Max(group_starts(text, label, Min(hits)))
             IN  SubSeq(text, start, line_end(text, start))

\* Lines 126-127 and 130-131: `m.group(1).strip() if m else None`.
labelled_value(label, qr_text) ==
    IF isna(re_search_group(label, qr_text)) THEN None
    ELSE strip(re_search_group(label, qr_text))

(***************************************************************************)
(* Coverage.  A coverage value is the exact ratio num / den; the script    *)
(* holds it as a float, and for counts of this size the float compares     *)
(* with 20, 40, 60, 80 and 100 as the exact ratio does.  A ratio with      *)
(* den = 0 stands for the ZeroDivisionError of a division by zero.         *)
(***************************************************************************)
number(n) ==
    [num |-> n, den |-> 1]

\* Variant: the ratio is not multiplied by 100.
percent_of_without_100(a, b) ==
    [num |-> a, den |-> b]

\* a / b * 100
percent_of(a, b) ==
    [num |-> a * 100, den |-> b]

ZeroDivisionError(x) ==
    x.den = 0

\* x < n and x >= n for a coverage x and a whole number n
less_than(x, n) ==
    x.num < n * x.den

at_least(x, n) ==
    x.num >= n * x.den

\* Variant: the guard on the enrollment is missing.
coverage_unguarded(distributed, enrollment) ==
    percent_of(distributed, enrollment)

\* `(distributed / enrollment * 100) if enrollment > 0 else 0`, the
\* expression of lines 257, 332, 354, 444, 894, 900, 906, 922 and 943.
coverage_of(distributed, enrollment) ==
    IF enrollment > 0 THEN percent_of(distributed, enrollment) ELSE number(0)

\* Variant: nothing is capped.
cap_at_100_missing(coverage) ==
    coverage

\* min(coverage_percent, 100), line 258.
cap_at_100(coverage) ==
    IF 100 * coverage.den < coverage.num THEN number(100) ELSE coverage

\* Variant: a boundary value falls into the lower bucket.
get_coverage_color_upper_inclusive(coverage) ==
    IF ~(coverage.num > 20 * coverage.den) THEN "#d32f2f"
    ELSE IF ~(coverage.num > 40 * coverage.den) THEN "#f57c00"
    ELSE IF ~(coverage.num > 60 * coverage.den) THEN "#fbc02d"
    ELSE IF ~(coverage.num > 80 * coverage.den) THEN "#388e3c"
    ELSE IF ~(coverage.num > 100 * coverage.den) THEN "#1976d2"
    ELSE "#4a148c"

\* get_coverage_color, lines 193-206.
get_coverage_color(coverage) ==
    IF less_than(coverage, 20) THEN "#d32f2f"
    ELSE IF less_than(coverage, 40) THEN "#f57c00"
    ELSE IF less_than(coverage, 60) THEN "#fbc02d"
    ELSE IF less_than(coverage, 80) THEN "#388e3c"
    ELSE IF less_than(coverage, 100) THEN "#1976d2"
    ELSE "#4a148c"

\* "Determine status", lines 945-955 (the labels without their emoji).
status_of(coverage) ==
    IF at_least(coverage, 80) THEN "Excellent"
    ELSE IF at_least(coverage, 60) THEN "Good"
    ELSE IF at_least(coverage, 40) THEN "Fair"
    ELSE IF at_least(coverage, 20) THEN "Poor"
    ELSE "Critical"

(***************************************************************************)
(* Selections and sums on itn_df.                                          *)
(***************************************************************************)

\* Variant: the value of the last of the rows stands for the column's sum.
column_last(frame, rows, column) ==
    IF rows = {} THEN 0 ELSE frame[Max(rows)][column]

\* Series.sum() over the given rows of a column.
RECURSIVE column_sum(_, _, _)
column_sum(frame, rows, column) ==
    IF rows = {} THEN 0
    ELSE LET i == Min(rows)
         IN  frame[i][column] + column_sum(frame, rows \ {i}, column)

\* Variant: the district is compared as written, without .str.upper().
district_rows_as_written(frame, district) ==
    {i \in DOMAIN frame : frame[i].District = district}

\* itn_df[itn_df["District"].str.upper() == district.upper()]: a null
\* district compares unequal.
district_rows(frame, district) ==
    {i \in DOMAIN frame :
        ~isna(frame[i].District) /\ upper(frame[i].District) = upper(district)}

\* Variant: the chiefdom is looked up in the whole frame, not in the rows of
\* the district.
chiefdom_rows_of_any_district(frame, district, chiefdom) ==
    {i \in DOMAIN frame : frame[i].Chiefdom = chiefdom}

\* district_data[district_data["Chiefdom"] == chiefdom]
chiefdom_rows(frame, district, chiefdom) ==
    {i \in district_rows(frame, district) : frame[i].Chiefdom = chiefdom}

\* district_data['Chiefdom'].dropna().unique(), as a set
unique_chiefdoms(frame, district) ==
    {frame[i].Chiefdom : i \in district_rows(frame, district)} \ {None}

\* a < b for two texts, as Python orders str: by code point, a proper prefix first.
text_less(a, b) ==
    \E k \in 1..(Len(b)) :
        /\ \A j \in 1..(k - 1) : j <= Len(a) /\ a[j] = b[j]
        /\ k - 1 <= Len(a)
        /\ (k > Len(a) \/ a[k] < b[k])

\* sorted(texts)
RECURSIVE sorted(_)
sorted(texts) ==
    IF texts = {} THEN <<>>
    ELSE LET first == CHOOSE a \in texts : \A b \in texts \ {a} : text_less(a, b)
         IN  <<first>> \o sorted(texts \ {first})

\* for district in ["BO", "BOMBALI"]
TargetDistricts ==
    <<S_BO, S_BOMBALI>>

\* gdf = gpd.read_file("Chiefdom2021.shp"): the <<FIRST_DNAM, FIRST_CHIE>> of
\* the regions.  The boundary file is data; these regions stand for it.
gdf ==
    {<<S_BO, S_BO_TOWN>>, <<S_BO, S_BAGBO>>, <<S_BO, S_KAKUA>>,
     <<S_BOMBALI, S_GBANTI>>, <<S_BOMBALI, S_MARA>>}

\* One pass of the loop of line 240: the panel of a chiefdom of the boundary file.
panel_of(frame, district_name, chiefdom) ==
    LET chiefdom_data == chiefdom_rows(frame, district_name, chiefdom)
        enrollment_total == IF Cardinality(chiefdom_data) > 0
                                THEN column_sum(frame, chiefdom_data, "Total_Enrollment")
                                ELSE 0
        itns_total == IF Cardinality(chiefdom_data) > 0
                          THEN column_sum(frame, chiefdom_data, "Total_ITNs")
                          ELSE 0
        coverage_257 == coverage_of(itns_total, enrollment_total)
        coverage_percent_258 == cap_at_100(coverage_257)
    IN  [chiefdom |-> chiefdom,
         itns_total |-> itns_total,
         enrollment_total |-> enrollment_total,
         coverage_before_cap |-> coverage_257,
         coverage_percent |-> coverage_percent_258,
         coverage_color |-> get_coverage_color(coverage_percent_258)]

\* create_itn_coverage_dashboard: the panels in sorted chiefdom order, or
\* None when the boundary file has no region of the district.
create_itn_coverage_dashboard(shapes, frame, district_name) ==
    LET district_gdf == {region \in shapes : region[1] = district_name}
        names == sorted({region[2] : region \in district_gdf})
    IN  IF district_gdf = {} THEN None
        ELSE [k \in 1..Len(names) |-> panel_of(frame, district_name, names[k])]

\* Lines 330-332, 531-533, 892-894: the totals of one district.
district_totals(frame, district) ==
    LET district_data == district_rows(frame, district)
        enrollment == column_sum(frame, district_data, "Total_Enrollment")
        distributed == column_sum(frame, district_data, "Distributed_ITNs")
    IN  [Total_Enrollment |-> enrollment,
         ITNs_Distributed |-> distributed,
         Coverage |-> coverage_of(distributed, enrollment)]

\* Variant: the totals of a chiefdom are read from the first row of the
\* group instead of being summed.
chiefdom_totals_first_row(frame, district, chiefdom) ==
    LET chiefdom_data == chiefdom_rows(frame, district, chiefdom)
        enrollment == frame[Min(chiefdom_data)].Total_Enrollment
        distributed == frame[Min(chiefdom_data)].Distributed_ITNs
    IN  [Total_Enrollment |-> enrollment,
         ITNs_Distributed |-> distributed,
         Coverage |-> coverage_of(distributed, enrollment)]

\* Lines 350-354, 940-943: the totals of one chiefdom of a district.
chiefdom_totals(frame, district, chiefdom) ==
    LET chiefdom_data == chiefdom_rows(frame, district, chiefdom)
        enrollment == column_sum(frame, chiefdom_data, "Total_Enrollment")
        distributed == column_sum(frame, chiefdom_data, "Distributed_ITNs")
    IN  [Total_Enrollment |-> enrollment,
         ITNs_Distributed |-> distributed,
         Coverage |-> coverage_of(distributed, enrollment)]

\* Lines 436-449 and 904-906: the totals of the whole frame.
overall_totals(frame) ==
    LET enrollment == column_sum(frame, DOMAIN frame, "Total_Enrollment")
        distributed == column_sum(frame, DOMAIN frame, "Distributed_ITNs")
    IN  [Total_Enrollment |-> enrollment,
         ITNs_Distributed |-> distributed,
         Coverage |-> coverage_of(distributed, enrollment)]

\* Variant: the district entries come in the order in which the districts
\* are first seen in the rows, a district without rows last.
summary_districts_first_seen(frame, k) ==
    LET seen == {i \in DOMAIN frame :
                    /\ ~isna(frame[i].District)
                    /\ upper(frame[i].District) \in {S_BO, S_BOMBALI}}
        order == IF seen # {} /\ upper(frame[Min(seen)].District) = S_BOMBALI
                     THEN <<S_BOMBALI, S_BO>>
                     ELSE <<S_BO, S_BOMBALI>>
    IN  [j \in 1..(Len(order) - k + 1) |->
            [Level |-> "District", District |-> order[j + k - 1],
             Name |-> order[j + k - 1]] @@ district_totals(frame, order[j + k - 1])]

\* Lines 327-340: the district entries of the summary, for the districts k..2.
RECURSIVE summary_districts(_, _)
summary_districts(frame, k) ==
    IF k > Len(TargetDistricts) THEN <<>>
    ELSE <<[Level |-> "District", District |-> TargetDistricts[k],
            Name |-> TargetDistricts[k]] @@ district_totals(frame, TargetDistricts[k])>>
         \o summary_districts(frame, k + 1)

\* Lines 349-362: the entries of the sorted chiefdoms of one district.
summary_chiefdoms_of(frame, district) ==
    LET names == sorted(unique_chiefdoms(frame, district))
    IN  [k \in 1..Len(names) |->
            [Level |-> "Chiefdom", District |-> district, Name |-> names[k]]
                @@ chiefdom_totals(frame, district, names[k])]

\* Lines 343-362, for the districts k..2.
RECURSIVE summary_chiefdoms(_, _)
summary_chiefdoms(frame, k) ==
    IF k > Len(TargetDistricts) THEN <<>>
    ELSE summary_chiefdoms_of(frame, TargetDistricts[k]) \o summary_chiefdoms(frame, k + 1)

\* generate_simple_summary; 'Coverage' is the value that is then printed
\* with one decimal.
generate_simple_summary(frame) ==
    summary_districts(frame, 1) \o summary_chiefdoms(frame, 1)

\* The non-null chiefdoms of the given rows in first-seen order, as
\* `.dropna().unique()` returns them.
RECURSIVE unique_in_order(_, _)
unique_in_order(frame, rows) ==
    IF rows = {} THEN <<>>
    ELSE LET i == Min(rows)
             chiefdom == frame[i].Chiefdom
         IN  (IF chiefdom = None THEN <<>> ELSE <<chiefdom>>)
                 \o unique_in_order(frame, {r \in rows \ {i} : frame[r].Chiefdom # chiefdom})

\* Variant: the chiefdoms of the detailed table are not sorted.
detailed_rows_of_unsorted(frame, district) ==
    LET names == unique_in_order(frame, district_rows(frame, district))
    IN  [k \in 1..Len(names) |->
            [District |-> district, Chiefdom |-> names[k],
             Status |-> status_of(chiefdom_totals(frame, district, names[k]).Coverage)]
                @@ chiefdom_totals(frame, district, names[k])]

\* Lines 939-964: the rows of the sorted chiefdoms of one district.
detailed_rows_of(frame, district) ==
    LET names == sorted(unique_chiefdoms(frame, district))
    IN  [k \in 1..Len(names) |->
            [District |-> district, Chiefdom |-> names[k],
             Status |-> status_of(chiefdom_totals(frame, district, names[k]).Coverage)]
                @@ chiefdom_totals(frame, district, names[k])]

\* Lines 934-964, for the districts k..2.
RECURSIVE detailed_rows(_, _)
detailed_rows(frame, k) ==
    IF k > Len(TargetDistricts) THEN <<>>
    ELSE detailed_rows_of(frame, TargetDistricts[k]) \o detailed_rows(frame, k + 1)

\* The <<district, chiefdom>> pairs the loops of lines 914-918 go through.
all_chiefdoms(frame) ==
    UNION {{<<TargetDistricts[k], c>> : c \in unique_chiefdoms(frame, TargetDistricts[k])} :
             k \in DOMAIN TargetDistricts}

\* Lines 910-929: the chiefdoms of the two districts with coverage >= 60.
good_chiefdoms(frame) ==
    {pair \in all_chiefdoms(frame) :
        at_least(chiefdom_totals(frame, pair[1], pair[2]).Coverage, 60)}

(***************************************************************************)
(* Calls of map_chiefdom_name on their own: the argument ranges over the   *)
(* table's keys as authored, lower-cased, upper-cased and padded with      *)
(* whitespace, over the canonical values, and over further texts.          *)
(***************************************************************************)
lower_char(c) ==
    IF c >= 65 /\ c <= 90 THEN c + 32 ELSE c

lower(s) ==
    [i \in 1..Len(s) |-> lower_char(s[i])]

AliasKeys ==
    {create_chiefdom_mapping[i].key : i \in DOMAIN create_chiefdom_mapping}

CanonicalValues ==
    {create_chiefdom_mapping[i].value : i \in DOMAIN create_chiefdom_mapping}

OtherNames ==
    {S_Bombali, S_mara, S_bargbo, S_Unknown_Place, S_Unknown_Place_padded,
     S_Kenema, S_Bo, S_City, S_Gbanti_North, S_empty, S_blank}

MapperInputs ==
    AliasKeys \cup CanonicalValues \cup OtherNames \cup {None}
        \cup {lower(k) : k \in AliasKeys}
        \cup {upper(k) : k \in AliasKeys}
        \cup {<<32>> \o k \o <<32, 10>> : k \in AliasKeys}

\* No spreadsheet is read while map_chiefdom_name is studied on its own.
ExtractIdle ==
    /\ df = <<>>
    /\ df_columns = {}
    /\ idx = 0
    /\ districts = <<>>
    /\ chiefdoms = <<>>
    /\ total_enrollment = <<>>
    /\ total_itns = <<>>
    /\ distributed_itns = <<>>
    /\ itn_df = <<>>

\* No table has been computed.
TablesIdle ==
    /\ overview = <<>>
    /\ fig_bo_itn = <<>>
    /\ fig_bombali_itn = <<>>
    /\ analysis = <<>>
    /\ detailed_itn_coverage = <<>>
    /\ summary_data = <<>>

\* No coverage value is classified on its own.
ClassifierIdle ==
    /\ coverage_percent = number(0)
    /\ coverage_color = ""
    /\ status = ""

InitMapper ==
    /\ pc = "map_call"
    /\ chiefdom_name \in MapperInputs
    /\ mapped = None
    /\ ExtractIdle
    /\ TablesIdle
    /\ ClassifierIdle

\* mapped_chiefdom = map_chiefdom_name(original_chiefdom, chiefdom_mapping)
MapChiefdomName ==
    /\ pc = "map_call"
    /\ mapped' = map_chiefdom_name(chiefdom_name, create_chiefdom_mapping)
    /\ pc' = "map_returned"
    /\ UNCHANGED <<chiefdom_name, extract_vars, table_vars, classifier_vars>>

NextMapper ==
    MapChiefdomName

SpecMapper ==
    InitMapper /\ [][NextMapper]_vars


(***************************************************************************)
(* The survey spreadsheets the script is run on.                           *)
(***************************************************************************)

\* Largest whole count written in a cell.
MaxCount ==
    1

\* Number of rows of the spreadsheet, at most.
MaxRecords ==
    2

\* Cells of one question: classes 1..k hold v, the others are empty.
ClassCells(k, v) ==
    [class_num \in range_1_6 |-> IF class_num <= k THEN v ELSE NaN]

NoCells ==
    ClassCells(0, NaN)

SurveyRecord(qr, enrollment, boys, girls, left) ==
    [qr |-> qr, enrollment |-> enrollment, boys |-> boys, girls |-> girls, left |-> left]

\* Schools of Bo City with one pupil enrolled per class: 0 to 5 classes of
\* boys served and nothing left at the school, or no class or every class
\* served and MaxCount nets left at the school.
CountedRecords ==
    {SurveyRecord(QR_BO_BoCity, ClassCells(5, 10), ClassCells(k, 10 * MaxCount), NoCells, NaN) :
        k \in 0..5}
    \cup
    {SurveyRecord(QR_BO_BoCity, ClassCells(5, 10), ClassCells(k, 10), NoCells, 10 * MaxCount) :
        k \in {0, 5}}

\* Further cell patterns: no enrollment at all; fractional entries; a zero
\* left-at-school entry with boys in classes 2 and 4 only.
OddRecords ==
    {SurveyRecord(QR_BO_BoCity, NoCells, ClassCells(1, 10), NoCells, 10),
     SurveyRecord(QR_BO_BoCity, ClassCells(1, 25), NoCells, ClassCells(2, 15), 10 * MaxCount + 5),
     SurveyRecord(QR_BO_BoCity, ClassCells(2, 10),
                  [class_num \in range_1_6 |-> IF class_num \in {2, 4} THEN 10 ELSE NaN],
                  ClassCells(1, 10), 0)}

\* The "Scan QR code" cells, None for an empty one.
Payloads ==
    {QR_BO_Bargbo, QR_Bombali_GbantiBombali, QR_BOMBALI_Gbanti, QR_NoLabels,
     QR_BO_NoChiefdom, None}

\* Schools elsewhere, or nowhere: five pupils, three boys and a girl served,
\* MaxCount nets left at the school.
PlacedRecords ==
    {SurveyRecord(qr, ClassCells(5, 10), ClassCells(3, 10), ClassCells(1, 10), 10 * MaxCount) :
        qr \in Payloads}

RecordPool ==
    CountedRecords \cup OddRecords \cup PlacedRecords

AllColumns ==
    {enrollment_col(c) : c \in range_1_6} \cup {boys_col(c) : c \in range_1_6}
        \cup {girls_col(c) : c \in range_1_6} \cup {left_col}

\* A spreadsheet without the Class 4 and 5 questions and without the
\* left-at-school question.
FewColumns ==
    {enrollment_col(c) : c \in 1..3} \cup {boys_col(c) : c \in 1..3}
        \cup {girls_col(c) : c \in 1..3}

Spreadsheets ==
    UNION {[1..n -> RecordPool] : n \in 1..MaxRecords}

(***************************************************************************)
(* The script: extraction, then the tables.                                *)
(***************************************************************************)
MapperIdle ==
    /\ chiefdom_name = None
    /\ mapped = None

\* df_original = pd.read_excel(...); the lists of line 110 are empty.
Init ==
    /\ pc = "extract"
    /\ df \in Spreadsheets
    /\ df_columns \in {AllColumns, FewColumns}
    /\ idx = 0
    /\ districts = <<>>
    /\ chiefdoms = <<>>
    /\ total_enrollment = <<>>
    /\ total_itns = <<>>
    /\ distributed_itns = <<>>
    /\ itn_df = <<>>
    /\ MapperIdle
    /\ TablesIdle
    /\ ClassifierIdle

\* Variant: a record whose QR cell is empty is skipped, nothing is appended.
ExtractEmptyRow_dropped ==
    /\ pc = "extract"
    /\ idx < Len(df)
    /\ isna(df[idx + 1].qr)
    /\ idx' = idx + 1
    /\ UNCHANGED <<pc, df, df_columns, itn_df, mapper_vars, classifier_vars, table_vars,
                   districts, chiefdoms, total_enrollment, total_itns, distributed_itns>>

\* One pass of the loop of line 116 over a record whose QR cell is empty
\* (lines 117-123).
ExtractEmptyRow ==
    /\ pc = "extract"
    /\ idx < Len(df)
    /\ isna(df[idx + 1].qr)
    /\ districts' = Append(districts, None)
    /\ chiefdoms' = Append(chiefdoms, None)
    /\ total_enrollment' = Append(total_enrollment, 0)
    /\ total_itns' = Append(total_itns, 0)
    /\ distributed_itns' = Append(distributed_itns, 0)
    /\ idx' = idx + 1
    /\ UNCHANGED <<pc, df, df_columns, itn_df, mapper_vars, classifier_vars, table_vars>>

\* One pass of the loop over a record with a QR text (lines 125-180).
ExtractRow ==
    /\ pc = "extract"
    /\ idx < Len(df)
    /\ ~isna(df[idx + 1].qr)
    /\ LET record == df[idx + 1]
           district == labelled_value(label_District, record.qr)
           original_chiefdom == labelled_value(label_Chiefdom, record.qr)
           mapped_chiefdom == map_chiefdom_name(original_chiefdom, create_chiefdom_mapping)
       IN  /\ districts' = Append(districts, district)
           /\ chiefdoms' = Append(chiefdoms, mapped_chiefdom)
           /\ total_enrollment' = Append(total_enrollment, enrollment_total_of(record, df_columns))
           /\ total_itns' = Append(total_itns, itns_total_of(record, df_columns))
           /\ distributed_itns' = Append(distributed_itns, itns_distributed_of(record, df_columns))
    /\ idx' = idx + 1
    /\ UNCHANGED <<pc, df, df_columns, itn_df, mapper_vars, classifier_vars, table_vars>>

\* Lines 182-191: the extracted lists become the columns of itn_df.
ReturnFrame ==
    /\ pc = "extract"
    /\ idx = Len(df)
    /\ itn_df' = [i \in 1..Len(districts) |->
                    [District |-> districts[i],
                     Chiefdom |-> chiefdoms[i],
                     Total_Enrollment |-> total_enrollment[i],
                     Total_ITNs |-> total_itns[i],
                     Distributed_ITNs |-> distributed_itns[i]]]
    /\ pc' = "overview"
    /\ UNCHANGED <<df, df_columns, idx, districts, chiefdoms, total_enrollment,
                   total_itns, distributed_itns, mapper_vars, classifier_vars, table_vars>>

\* Lines 429-449: the "ITN Data Overview" metrics.
Overview ==
    /\ pc = "overview"
    /\ Len(itn_df) > 0
    /\ overview' = [schools_with_distribution |->
                       Cardinality({i \in DOMAIN itn_df : itn_df[i].Distributed_ITNs > 0})]
                   @@ overall_totals(itn_df)
    /\ pc' = "dashboard_BO"
    /\ UNCHANGED <<mapper_vars, classifier_vars, extract_vars, fig_bo_itn, fig_bombali_itn,
                   analysis, detailed_itn_coverage, summary_data>>

\* Line 459: fig_bo_itn = create_itn_coverage_dashboard(gdf, itn_df, "BO", columns)
DashboardBO ==
    /\ pc = "dashboard_BO"
    /\ fig_bo_itn' = create_itn_coverage_dashboard(gdf, itn_df, S_BO)
    /\ pc' = "dashboard_BOMBALI"
    /\ UNCHANGED <<mapper_vars, classifier_vars, extract_vars, overview, fig_bombali_itn,
                   analysis, detailed_itn_coverage, summary_data>>

\* Line 581: fig_bombali_itn = create_itn_coverage_dashboard(gdf, itn_df, "BOMBALI", columns)
DashboardBOMBALI ==
    /\ pc = "dashboard_BOMBALI"
    /\ fig_bombali_itn' = create_itn_coverage_dashboard(gdf, itn_df, S_BOMBALI)
    /\ pc' = "analysis"
    /\ UNCHANGED <<mapper_vars, classifier_vars, extract_vars, overview, fig_bo_itn,
                   analysis, detailed_itn_coverage, summary_data>>

\* Lines 883-929: the "ITN Distribution Analysis" metrics.
Analysis ==
    /\ pc = "analysis"
    /\ Len(itn_df) > 0
    /\ analysis' =
          [bo |-> district_totals(itn_df, S_BO),
           bombali |-> district_totals(itn_df, S_BOMBALI),
           overall |-> overall_totals(itn_df),
           good_itn_coverage_count |-> Cardinality(good_chiefdoms(itn_df)),
           total_chiefdoms |-> Cardinality(all_chiefdoms(itn_df)),
           good_itn_coverage_percent |->
               coverage_of(Cardinality(good_chiefdoms(itn_df)),
                           Cardinality(all_chiefdoms(itn_df)))]
    /\ pc' = "detailed"
    /\ UNCHANGED <<mapper_vars, classifier_vars, extract_vars, overview, fig_bo_itn,
                   fig_bombali_itn, detailed_itn_coverage, summary_data>>

\* Lines 934-967: the "Detailed ITN Coverage by Chiefdom" table.
DetailedTable ==
    /\ pc = "detailed"
    /\ detailed_itn_coverage' = detailed_rows(itn_df, 1)
    /\ pc' = "summary"
    /\ UNCHANGED <<mapper_vars, classifier_vars, extract_vars, overview, fig_bo_itn,
                   fig_bombali_itn, analysis, summary_data>>

\* Lines 972-976: summary_data = generate_simple_summary(itn_df)
DistributionSummary ==
    /\ pc = "summary"
    /\ summary_data' = generate_simple_summary(itn_df)
    /\ pc' = "done"
    /\ UNCHANGED <<mapper_vars, classifier_vars, extract_vars, overview, fig_bo_itn,
                   fig_bombali_itn, analysis, detailed_itn_coverage>>

Next ==
    \/ ExtractEmptyRow
    \/ ExtractRow
    \/ ReturnFrame
    \/ Overview
    \/ DashboardBO
    \/ DashboardBOMBALI
    \/ Analysis
    \/ DetailedTable
    \/ DistributionSummary

Spec ==
    Init /\ [][Next]_vars

(***************************************************************************)
(* The two classifications of a coverage value on their own: the argument  *)
(* ranges over the whole percentages up to MaxPercent and over the values  *)
(* one thousandth below and above each threshold.                          *)
(***************************************************************************)
MaxPercent ==
    120

Thresholds ==
    {20, 40, 60, 80, 100}

CoverageInputs ==
    {number(n) : n \in 0..MaxPercent}
        \cup {[num |-> 1000 * t + d, den |-> 1000] : t \in Thresholds, d \in {-1, 1}}

InitClassifier ==
    /\ pc = "color"
    /\ coverage_percent \in CoverageInputs
    /\ coverage_color = ""
    /\ status = ""
    /\ MapperIdle
    /\ ExtractIdle
    /\ TablesIdle

\* coverage_color = get_coverage_color(coverage_percent)
GetCoverageColor ==
    /\ pc = "color"
    /\ coverage_color' = get_coverage_color(coverage_percent)
    /\ pc' = "status"
    /\ UNCHANGED <<coverage_percent, status, mapper_vars, extract_vars, table_vars>>

\* The if / elif chain of lines 946-955 on the same value.
DetermineStatus ==
    /\ pc = "status"
    /\ status' = status_of(coverage_percent)
    /\ pc' = "classified"
    /\ UNCHANGED <<coverage_percent, coverage_color, mapper_vars, extract_vars, table_vars>>

NextClassifier ==
    \/ GetCoverageColor
    \/ DetermineStatus

SpecClassifier ==
    InitClassifier /\ [][NextClassifier]_vars

(***************************************************************************)
(* The script on spreadsheets of schools of several districts and          *)
(* chiefdoms, each with its own counts: the rows the tables group.         *)
(***************************************************************************)

\* Number of rows of such a spreadsheet, at most.
MaxSchools ==
    3

\* Two schools of Bo district with Class 1 only: 50 pupils, 20 boys and 15
\* girls served, 5 nets left; 30 pupils, 10 boys and 10 girls served, 2 left.
RecordA ==
    SurveyRecord(QR_BO_BoCity, ClassCells(1, 500), ClassCells(1, 200), ClassCells(1, 150), 50)

RecordB ==
    SurveyRecord(QR_BO_Bargbo, ClassCells(1, 300), ClassCells(1, 100), ClassCells(1, 100), 20)

\* A school with the given QR cell, pupils in Class 1 and nets given to boys
\* of Class 1.
SchoolAt(qr, pupils, nets) ==
    SurveyRecord(qr, ClassCells(1, 10 * pupils), ClassCells(1, 10 * nets), NoCells, NaN)

\* Schools of Gbanti under both spellings and both spellings of the
\* district, a school of Bo district that names Gbanti, a school of Kenema
\* district, a school without chiefdom, a record without QR text.
GroupedRecords ==
    {RecordA, RecordB,
     SchoolAt(QR_Bombali_GbantiBombali, 40, 10),
     SchoolAt(QR_BOMBALI_Gbanti, 20, 20),
     SchoolAt(QR_BO_Gbanti, 10, 4),
     SchoolAt(QR_Kenema_Nongowa, 8, 8),
     SchoolAt(QR_BO_NoChiefdom, 6, 3),
     SchoolAt(None, 7, 7)}

GroupedSpreadsheets ==
    UNION {[1..n -> GroupedRecords] : n \in 1..MaxSchools}

InitAggregation ==
    /\ pc = "extract"
    /\ df \in GroupedSpreadsheets
    /\ df_columns = AllColumns
    /\ idx = 0
    /\ districts = <<>>
    /\ chiefdoms = <<>>
    /\ total_enrollment = <<>>
    /\ total_itns = <<>>
    /\ distributed_itns = <<>>
    /\ itn_df = <<>>
    /\ MapperIdle
    /\ TablesIdle
    /\ ClassifierIdle

SpecAggregation ==
    InitAggregation /\ [][Next]_vars

(***************************************************************************)
(* The script on spreadsheets of one school, the QR text ranging over      *)
(* payloads put together from lines: a District line and a Chiefdom line   *)
(* in either order, each present or not, with or without a value, between  *)
(* other lines or not.                                                     *)
(***************************************************************************)

\* "District: BO"
Line_District_BO ==
    <<68, 105, 115, 116, 114, 105, 99, 116, 58, 32, 66, 79>>

\* "District:BO"
Line_District_BO_unspaced ==
    <<68, 105, 115, 116, 114, 105, 99, 116, 58, 66, 79>>

\* "District:"
Line_District_bare ==
    <<68, 105, 115, 116, 114, 105, 99, 116, 58>>

\* "District: "
Line_District_blank ==
    <<68, 105, 115, 116, 114, 105, 99, 116, 58, 32>>

\* "District:  BOMBALI  "
Line_District_BOMBALI_padded ==
    <<68, 105, 115, 116, 114, 105, 99, 116, 58, 32, 32, 66, 79, 77, 66, 65, 76, 73, 32, 32>>

\* "Chiefdom: Bo City"
Line_Chiefdom_BoCity ==
    <<67, 104, 105, 101, 102, 100, 111, 109, 58, 32, 66, 111, 32, 67, 105, 116, 121>>

\* "Chiefdom:Kakua"
Line_Chiefdom_Kakua_unspaced ==
    <<67, 104, 105, 101, 102, 100, 111, 109, 58, 75, 97, 107, 117, 97>>

\* "Chiefdom:"
Line_Chiefdom_bare ==
    <<67, 104, 105, 101, 102, 100, 111, 109, 58>>

\* "Chiefdom: \t"
Line_Chiefdom_blank ==
    <<67, 104, 105, 101, 102, 100, 111, 109, 58, 32, 9>>

\* "Chiefdom:  Gbanti "
Line_Chiefdom_Gbanti_padded ==
    <<67, 104, 105, 101, 102, 100, 111, 109, 58, 32, 32, 71, 98, 97, 110, 116, 105, 32>>

\* "School: A"
Line_School ==
    <<83, 99, 104, 111, 111, 108, 58, 32, 65>>

\* The District lines and the Chiefdom lines of a payload, None for a
\* payload without the line.
DistrictLines ==
    {None, Line_District_BO, Line_District_BO_unspaced, Line_District_bare, Line_District_blank, Line_District_BOMBALI_padded}

ChiefdomLines ==
    {None, Line_Chiefdom_BoCity, Line_Chiefdom_Kakua_unspaced, Line_Chiefdom_bare, Line_Chiefdom_blank, Line_Chiefdom_Gbanti_padded}

\* Lines before the two: none or another field.  Lines after them: none,
\* another field, or an empty line (the payload ends with a newline).
LinesBefore ==
    {None, Line_School}

LinesAfter ==
    {None, Line_School, S_empty}

\* The lines of a payload, top to bottom.
PayloadLayouts ==
    {<<before, d, c, after>> :
        before \in LinesBefore, d \in DistrictLines, c \in ChiefdomLines, after \in LinesAfter}
    \cup
    {<<before, c, d, after>> :
        before \in LinesBefore, d \in DistrictLines, c \in ChiefdomLines, after \in LinesAfter}

\* The text of the lines that are there, joined by newlines.
RECURSIVE payload_text(_)
payload_text(lines) ==
    IF lines = <<>> THEN <<>>
    ELSE LET rest == SelectSeq(Tail(lines), LAMBDA l : l # None)
         IN  IF Head(lines) = None THEN payload_text(Tail(lines))
             ELSE IF rest = <<>> THEN Head(lines)
             ELSE Head(lines) \o <<10>> \o payload_text(rest)

PayloadTexts ==
    {payload_text(layout) : layout \in PayloadLayouts}

\* One-school spreadsheets: ten pupils and five nets, a QR text or none.
PayloadSpreadsheets ==
    {<<SchoolAt(qr, 10, 5)>> : qr \in PayloadTexts \cup {None}}

InitPayloads ==
    /\ pc = "extract"
    /\ df \in PayloadSpreadsheets
    /\ df_columns = AllColumns
    /\ idx = 0
    /\ districts = <<>>
    /\ chiefdoms = <<>>
    /\ total_enrollment = <<>>
    /\ total_itns = <<>>
    /\ distributed_itns = <<>>
    /\ itn_df = <<>>
    /\ MapperIdle
    /\ TablesIdle
    /\ ClassifierIdle

SpecPayloads ==
    InitPayloads /\ [][Next]_vars

(***************************************************************************)
(* Properties of map_chiefdom_name, checked under SpecMapper.              *)
(***************************************************************************)
Table ==
    create_chiefdom_mapping

\* The argument of the call, trimmed.
Trimmed ==
    strip(chiefdom_name)

\* Positions of the keys equal to the trimmed argument up to letter case.
SameLetters ==
    {i \in DOMAIN Table : upper(Table[i].key) = upper(Trimmed)}

\* Positions of the keys in the substring relation with the trimmed argument.
SubstringRelated ==
    {i \in DOMAIN Table :
        \/ str_in(upper(Table[i].key), upper(Trimmed))
        \/ str_in(upper(Trimmed), upper(Table[i].key))}

\* C4: an argument whose trimmed form equals a key, case-sensitively or
\* else case-insensitively, resolves to that key's value, also when a key
\* earlier in the table matches it as a substring; "Gbanti (Bombali)" gives
\* "GBANTI", "bargbo" gives "BAGBO" and "mara" gives "MARA".
C4_ExactBeforeSubstring ==
    (pc = "map_returned" /\ ~isna(chiefdom_name)) =>
        /\ \A i \in DOMAIN Table : Table[i].key = Trimmed => mapped = Table[i].value
        /\ (\A i \in DOMAIN Table : Table[i].key # Trimmed) =>
               \A i \in SameLetters : mapped = Table[i].value
        /\ chiefdom_name = S_Gbanti_Bombali => mapped = S_GBANTI
        /\ chiefdom_name = S_bargbo => mapped = S_BAGBO
        /\ chiefdom_name = S_mara => mapped = S_MARA

\* "mara" has returned "MARA" although the key "Kamaranka", earlier in the
\* table than "Mara", contains it.
C4_Witness ==
    /\ pc = "map_returned"
    /\ chiefdom_name = S_mara
    /\ mapped = S_MARA
    /\ \E i \in SubstringRelated, j \in SameLetters :
           i < j /\ Table[i].key = S_Kamaranka /\ Table[i].value # mapped

\* C5: with no exact and no case-insensitive key match, an argument in the
\* substring relation with several keys resolves to the value of the first
\* such key in table order; "Bombali" gives "BOMBALI SEBORA".
C5_FirstSubstringInTableOrder ==
    (pc = "map_returned" /\ ~isna(chiefdom_name)
        /\ SameLetters = {} /\ SubstringRelated # {}) =>
        /\ mapped = Table[Min(SubstringRelated)].value
        /\ chiefdom_name = S_Bombali => mapped = S_BOMBALI_SEBORA

\* "Bombali" is in three keys; the first one's value was returned, and a
\* longer matching key with another value comes later in the table.
C5_Witness ==
    /\ pc = "map_returned"
    /\ chiefdom_name = S_Bombali
    /\ SameLetters = {}
    /\ Cardinality(SubstringRelated) = 3
    /\ mapped = S_BOMBALI_SEBORA
    /\ \E j \in SubstringRelated :
           /\ j > Min(SubstringRelated)
           /\ Len(Table[j].key) > Len(Table[Min(SubstringRelated)].key)
           /\ Table[j].value # mapped

\* C6: a null argument returns null; a non-null argument whose trimmed form
\* matches no key, exactly, case-insensitively or as a substring in either
\* direction, comes back trimmed and otherwise unchanged.
C6_PassThrough ==
    pc = "map_returned" =>
        /\ isna(chiefdom_name) => mapped = None
        /\ (~isna(chiefdom_name) /\ SameLetters = {} /\ SubstringRelated = {}) =>
               mapped = Trimmed
        /\ chiefdom_name = S_Unknown_Place_padded => mapped = S_Unknown_Place

\* "  Unknown Place \n" has come back as "Unknown Place": whitespace removed,
\* letter case kept.
C6_Witness ==
    /\ pc = "map_returned"
    /\ chiefdom_name = S_Unknown_Place_padded
    /\ SubstringRelated = {}
    /\ mapped = S_Unknown_Place
    /\ mapped # upper(mapped)
    /\ mapped # chiefdom_name


(***************************************************************************)
(* map_chiefdom_name on its own outputs, checked under SpecMapper.         *)
(***************************************************************************)

\* C15: the canonical names are fixed points of map_chiefdom_name: for
\* every value v of the alias table, "BAGBO", "BO TOWN" and "GBANTI" among
\* them, map_chiefdom_name(v, table) = v, so a record that carries the
\* spelling of the boundary file stays in its chiefdom.
C15_CanonicalNamesAreFixedPoints ==
    (pc = "map_returned" /\ chiefdom_name \in CanonicalValues) =>
        /\ mapped = chiefdom_name
        /\ map_chiefdom_name(mapped, create_chiefdom_mapping) = mapped


(***************************************************************************)
(* Properties of extract_itn_data_from_excel, checked under Spec.          *)
(***************************************************************************)
\* The steps of the script, in the order it runs them.
ScriptOrder ==
    <<"extract", "overview", "dashboard_BO", "dashboard_BOMBALI", "analysis", "detailed",
      "summary", "done">>

\* The script has run the given step.
After(step) ==
    \E i, j \in DOMAIN ScriptOrder :
        ScriptOrder[i] = step /\ ScriptOrder[j] = pc /\ i < j

\* extract_itn_data_from_excel has returned itn_df.
Extracted ==
    After("extract")

RECURSIVE SumFn(_)
SumFn(f) ==
    IF DOMAIN f = {} THEN 0
    ELSE LET x == CHOOSE y \in DOMAIN f : TRUE
         IN  f[x] + SumFn([y \in DOMAIN f \ {x} |-> f[y]])

\* The whole part of a cell value held in tenths.
WholePart(v) ==
    CHOOSE w \in 0..v : 10 * w <= v /\ v < 10 * w + 10

\* Classes whose cell of the question is in the spreadsheet and holds a value.
Populated(record, question) ==
    {c \in 1..5 : <<question, c>> \in df_columns
                    /\ cell_of(record, <<question, c>>) # NaN}

LeftPresent(record) ==
    left_col \in df_columns /\ record.left # NaN

\* Sum of the present values of a question, as entered (in tenths).
EnteredSum(record, question) ==
    SumFn([c \in Populated(record, question) |-> cell_of(record, <<question, c>>)])

\* Sum of the present values of a question, each truncated to an integer.
TruncatedSum(record, question) ==
    SumFn([c \in Populated(record, question) |-> WholePart(cell_of(record, <<question, c>>))])

Boys ==
    boys_col(1)[1]

Girls ==
    girls_col(1)[1]

\* Rows the loop has emitted for records with a QR text.
EmittedWithPayload ==
    {i \in 1..Len(distributed_itns) : df[i].qr # None}

\* C1 as stated: Distributed_ITNs is the sum of the present boys values plus
\* the sum of the present girls values plus the left-at-school value, the
\* values taken as entered.
C1_DistributedIsSumOfEnteredValues ==
    \A i \in EmittedWithPayload :
        10 * distributed_itns[i] =
            EnteredSum(df[i], Boys) + EnteredSum(df[i], Girls)
                + (IF LeftPresent(df[i]) THEN df[i].left ELSE 0)

\* C1, amended: Distributed_ITNs is the sum of the present boys values plus
\* the sum of the present girls values plus the left-at-school value (0 if
\* absent), every value truncated to an integer; the left-at-school value
\* is added exactly once whatever number of class columns is populated.
C1_LeftAtSchoolAddedOnce ==
    \A i \in EmittedWithPayload :
        distributed_itns[i] =
            TruncatedSum(df[i], Boys) + TruncatedSum(df[i], Girls)
                + (IF LeftPresent(df[i]) THEN WholePart(df[i].left) ELSE 0)

\* Two rows have been emitted for schools with one net left at school: one
\* with all five boys classes populated, one with no class populated.
C1_Witness ==
    \E i, j \in EmittedWithPayload :
        /\ LeftPresent(df[i]) /\ df[i].left = 10
        /\ Cardinality(Populated(df[i], Boys)) = 5
        /\ distributed_itns[i] = 6
        /\ LeftPresent(df[j]) /\ df[j].left = 10
        /\ Populated(df[j], Boys) \cup Populated(df[j], Girls) = {}
        /\ distributed_itns[j] = 1

\* Sum of a column of itn_df.
FrameSum(column) ==
    SumFn([i \in DOMAIN itn_df |-> itn_df[i][column]])

ReceivedColumns ==
    ({boys_col(c) : c \in 1..5} \cup {girls_col(c) : c \in 1..5} \cup {left_col})
        \cap df_columns

\* Sum of one spreadsheet column over the given rows, values as entered.
EnteredColumnSum(col, rows) ==
    SumFn([i \in {r \in rows : cell_of(df[r], col) # NaN} |-> cell_of(df[i], col)])

\* Sum of one spreadsheet column over the given rows, values truncated.
TruncatedColumnSum(col, rows) ==
    SumFn([i \in {r \in rows : cell_of(df[r], col) # NaN} |-> WholePart(cell_of(df[i], col))])

\* C2 as stated: the sum of Distributed_ITNs over all extracted rows equals
\* the column-wise sum of all boys, girls and left-at-school values over all
\* input records.
C2_RowSumEqualsColumnSumOfAllRecords ==
    Extracted =>
        10 * FrameSum("Distributed_ITNs") =
            SumFn([col \in ReceivedColumns |-> EnteredColumnSum(col, DOMAIN df)])

\* C2, amended: the sum of Distributed_ITNs over all extracted rows equals
\* the column-wise sum of the boys, girls and left-at-school values, each
\* truncated to an integer, over the records that have a QR text; a record
\* without one adds nothing.
C2_RowSumEqualsColumnSumOfPayloadRecords ==
    Extracted =>
        FrameSum("Distributed_ITNs") =
            SumFn([col \in ReceivedColumns |->
                      TruncatedColumnSum(col, {i \in DOMAIN df : df[i].qr # None})])

\* Two records, one without a QR text but with counts, have been extracted
\* and the total is the other record's nets.
C2_Witness ==
    /\ Extracted
    /\ Len(df) = 2
    /\ df[1].qr = None /\ df[1].left = 10 /\ left_col \in df_columns
    /\ df[2].qr # None
    /\ FrameSum("Distributed_ITNs") = itn_df[2].Distributed_ITNs
    /\ FrameSum("Distributed_ITNs") > 0

\* C3: the loop emits one row per record, in input order; a record without
\* a QR text yields a row of null district, null chiefdom and zeros, so the
\* frame has as many rows as the spreadsheet.
C3_OneRowPerRecord ==
    /\ idx <= Len(df)
    /\ Len(districts) = idx /\ Len(chiefdoms) = idx /\ Len(total_enrollment) = idx
    /\ Len(total_itns) = idx /\ Len(distributed_itns) = idx
    /\ \A i \in 1..Len(districts) :
          IF df[i].qr = None
              THEN /\ districts[i] = None /\ chiefdoms[i] = None
                   /\ total_enrollment[i] = 0 /\ distributed_itns[i] = 0
              ELSE /\ districts[i] = labelled_value(label_District, df[i].qr)
                   /\ chiefdoms[i] = map_chiefdom_name(labelled_value(label_Chiefdom, df[i].qr),
                                                       create_chiefdom_mapping)
                   /\ total_enrollment[i] = TruncatedSum(df[i], enrollment_col(1)[1])
    /\ Extracted =>
          /\ Len(itn_df) = Len(df)
          /\ \A i \in DOMAIN itn_df :
                /\ itn_df[i].District = districts[i]
                /\ itn_df[i].Chiefdom = chiefdoms[i]
                /\ itn_df[i].Total_Enrollment = total_enrollment[i]
                /\ itn_df[i].Distributed_ITNs = distributed_itns[i]

\* A record without a QR text followed by a Bombali record: two rows, the
\* null row first.
C3_Witness ==
    /\ Extracted
    /\ Len(df) = 2 /\ Len(itn_df) = 2
    /\ df[1].qr = None /\ df[2].qr = QR_BOMBALI_Gbanti
    /\ itn_df[1].District = None /\ itn_df[1].Chiefdom = None
    /\ itn_df[1].Total_Enrollment = 0 /\ itn_df[1].Distributed_ITNs = 0
    /\ itn_df[2].District = S_BOMBALI /\ itn_df[2].Chiefdom = S_GBANTI
    /\ itn_df[2].Total_Enrollment > 0


(***************************************************************************)
(* Properties of the coverage values, checked under Spec and under         *)
(* SpecClassifier.                                                         *)
(***************************************************************************)

\* The value c is distributed / enrollment * 100 for a positive enrollment,
\* 0 for an enrollment of 0, and no division by zero.
IsCoverageOf(c, distributed, enrollment) ==
    /\ ~ZeroDivisionError(c)
    /\ IF enrollment > 0
           THEN c.num * enrollment = 100 * distributed * c.den
           ELSE c.num = 0

SeqRange(seq) ==
    {seq[i] : i \in DOMAIN seq}

\* The panels drawn so far.
Panels ==
    (IF After("dashboard_BO") THEN SeqRange(fig_bo_itn) ELSE {})
        \cup (IF After("dashboard_BOMBALI") THEN SeqRange(fig_bombali_itn) ELSE {})

\* The overall, district and chiefdom statistics reported so far, outside
\* the dashboards.
ReportedTotals ==
    (IF After("overview") THEN {overview} ELSE {})
        \cup (IF After("analysis")
                  THEN {analysis.bo, analysis.bombali, analysis.overall} ELSE {})
        \cup (IF After("detailed") THEN SeqRange(detailed_itn_coverage) ELSE {})
        \cup (IF After("summary") THEN SeqRange(summary_data) ELSE {})

\* C7: at every level (overall, district, chiefdom, dashboard panel) the
\* coverage is distributed / enrollment * 100 when the summed enrollment is
\* positive and 0 when it is 0, a group with no rows included; nothing
\* divides by zero.
C7_CoverageFormulaAtEveryLevel ==
    /\ \A t \in ReportedTotals :
          IsCoverageOf(t.Coverage, t.ITNs_Distributed, t.Total_Enrollment)
    /\ \A p \in Panels :
          /\ IsCoverageOf(p.coverage_before_cap, p.itns_total, p.enrollment_total)
          /\ ~ZeroDivisionError(p.coverage_percent)
          /\ chiefdom_rows(itn_df, S_BO, p.chiefdom)
                 \cup chiefdom_rows(itn_df, S_BOMBALI, p.chiefdom) = {}
               => p.coverage_percent.num = 0
    /\ After("analysis") => ~ZeroDivisionError(analysis.good_itn_coverage_percent)

\* The script has finished with a group of enrollment 0 but nets
\* distributed (coverage 0), a group with a positive ratio, a district and a
\* panel without any row.
C7_Witness ==
    /\ pc = "done"
    /\ \E a, b, c \in ReportedTotals :
          /\ a.Total_Enrollment = 0 /\ a.ITNs_Distributed > 0 /\ a.Coverage.num = 0
          /\ b.Total_Enrollment > 0 /\ b.Coverage.num = 100 * b.ITNs_Distributed
          /\ b.Coverage.num > 0
          /\ c = analysis.bombali /\ district_rows(itn_df, S_BOMBALI) = {}
          /\ c.Coverage.num = 0
    /\ \E p \in Panels : p.chiefdom = S_KAKUA /\ p.coverage_percent.num = 0

\* The colours of get_coverage_color.
Red ==
    "#d32f2f"

Orange ==
    "#f57c00"

Yellow ==
    "#fbc02d"

LightGreen ==
    "#388e3c"

Blue ==
    "#1976d2"

Purple ==
    "#4a148c"

\* lo <= c < hi
InBucket(c, lo, hi) ==
    lo * c.den <= c.num /\ c.num < hi * c.den

\* C8: get_coverage_color maps a non-negative coverage by half-open,
\* lower-inclusive buckets: [0,20) red, [20,40) orange, [40,60) yellow,
\* [60,80) light green, [80,100) blue, [100,inf) purple; 20, 40, 60, 80 and
\* 100 belong to the upper bucket and each value has exactly one colour.
C8_ColorBuckets ==
    pc \in {"status", "classified"} =>
        /\ coverage_color \in {Red, Orange, Yellow, LightGreen, Blue, Purple}
        /\ InBucket(coverage_percent, 0, 20) <=> coverage_color = Red
        /\ InBucket(coverage_percent, 20, 40) <=> coverage_color = Orange
        /\ InBucket(coverage_percent, 40, 60) <=> coverage_color = Yellow
        /\ InBucket(coverage_percent, 60, 80) <=> coverage_color = LightGreen
        /\ InBucket(coverage_percent, 80, 100) <=> coverage_color = Blue
        /\ 100 * coverage_percent.den <= coverage_percent.num <=> coverage_color = Purple

\* 20 exactly has been given orange, the colour of [20,40).
C8_Witness ==
    /\ pc = "classified"
    /\ coverage_percent = number(20)
    /\ coverage_color = Orange

\* The bucket, 1 (critical) to 6 (outstanding), a status label names.
BucketOfStatus(label) ==
    CASE label = "Critical" -> 1
      [] label = "Poor" -> 2
      [] label = "Fair" -> 3
      [] label = "Good" -> 4
      [] label = "Excellent" -> 5
      [] label = "Outstanding" -> 6
      [] OTHER -> 0

\* The bucket a colour names.
BucketOfColor(color) ==
    CASE color = Red -> 1
      [] color = Orange -> 2
      [] color = Yellow -> 3
      [] color = LightGreen -> 4
      [] color = Blue -> 5
      [] color = Purple -> 6
      [] OTHER -> 0

\* C9: the status label in a row of the detailed chiefdom table names the
\* same one of the six buckets as the colour get_coverage_color gives the
\* row's coverage; a coverage of 100 or more is outstanding.
C9_StatusNamesTheColorBucket ==
    After("detailed") =>
        \A row \in SeqRange(detailed_itn_coverage) :
            /\ BucketOfStatus(row.Status) = BucketOfColor(get_coverage_color(row.Coverage))
            /\ 100 * row.Coverage.den <= row.Coverage.num => row.Status = "Outstanding"

\* C9 on a coverage value alone: the label and the colour name one bucket.
C9_LabelAndColorAgree ==
    pc = "classified" => BucketOfStatus(status) = BucketOfColor(coverage_color)

\* c <= 100
AtMost100(c) ==
    c.num <= 100 * c.den

\* C10: a dashboard panel classifies and prints min(coverage, 100); the
\* detailed table, the summary and the metrics report the ratio itself,
\* which is above 100 whenever distributed > enrollment > 0; the colour of
\* the capped value is the colour the ratio itself would get.
C10_CapIsDisplayOnly ==
    /\ \A p \in Panels :
          /\ AtMost100(p.coverage_percent)
          /\ AtMost100(p.coverage_before_cap) => p.coverage_percent = p.coverage_before_cap
          /\ ~AtMost100(p.coverage_before_cap) => p.coverage_percent = number(100)
          /\ BucketOfColor(p.coverage_color)
                 = BucketOfColor(get_coverage_color(p.coverage_before_cap))
          /\ p.itns_total > p.enrollment_total /\ p.enrollment_total > 0
                 => p.coverage_color = Purple
    /\ \A t \in ReportedTotals :
          (t.ITNs_Distributed > t.Total_Enrollment /\ t.Total_Enrollment > 0)
              => ~AtMost100(t.Coverage)

\* Bo Town has more nets than pupils: its panel shows 100 in purple, its
\* rows of the detailed table and of the summary show more than 100.
C10_Witness ==
    /\ pc = "done"
    /\ \E p \in Panels, r \in SeqRange(detailed_itn_coverage), e \in SeqRange(summary_data) :
          /\ p.chiefdom = S_BO_TOWN /\ r.Chiefdom = S_BO_TOWN /\ r.District = S_BO
          /\ e.Level = "Chiefdom" /\ e.Name = S_BO_TOWN
          /\ p.itns_total > p.enrollment_total /\ p.enrollment_total > 0
          /\ p.coverage_percent = number(100) /\ p.coverage_color = Purple
          /\ p.itns_total = r.ITNs_Distributed /\ p.enrollment_total = r.Total_Enrollment
          /\ r.Coverage.num > 100 * r.Coverage.den
          /\ e.Coverage = r.Coverage

(***************************************************************************)
(* Properties of the tables on spreadsheets of several districts and       *)
(* chiefdoms, checked under SpecAggregation.                               *)
(***************************************************************************)

\* The row the loop has emitted for record i of the spreadsheet.
EmittedRow(i) ==
    <<districts[i], chiefdoms[i], total_enrollment[i], distributed_itns[i]>>

\* The district entries of the summary for the given district.
SummaryOfDistrict(name) ==
    {e \in SeqRange(summary_data) : e.Level = "District" /\ e.Name = name}

\* C11: record A (District BO, Chiefdom "Bo City", 50 pupils in Class 1, 20
\* boys, 15 girls, 5 left) yields the row (BO, BO TOWN, 50, 40), record B
\* (District BO, Chiefdom "Bargbo", 30 pupils, 10 boys, 10 girls, 2 left)
\* the row (BO, BAGBO, 30, 22); for the spreadsheet of A and B the BO
\* district statistic is enrollment 80, distributed 62, coverage 77.5, which
\* is in the good, light green bucket.
C11_ScenarioOfTwoBoSchools ==
    /\ \A i \in 1..Len(districts) :
          /\ df[i] = RecordA => EmittedRow(i) = <<S_BO, S_BO_TOWN, 50, 40>>
          /\ df[i] = RecordB => EmittedRow(i) = <<S_BO, S_BAGBO, 30, 22>>
    /\ (df = <<RecordA, RecordB>> /\ After("summary")) =>
          /\ Cardinality(SummaryOfDistrict(S_BO)) = 1
          /\ \A e \in SummaryOfDistrict(S_BO) \cup {analysis.bo} :
                /\ e.Total_Enrollment = 80
                /\ e.ITNs_Distributed = 62
                /\ 10 * e.Coverage.num = 775 * e.Coverage.den
                /\ get_coverage_color(e.Coverage) = LightGreen
                /\ status_of(e.Coverage) = "Good"

\* The script has finished on the spreadsheet of A and B, with both rows in
\* the frame and the BO entry first in the summary.
C11_Witness ==
    /\ pc = "done"
    /\ df = <<RecordA, RecordB>>
    /\ itn_df[1].Chiefdom = S_BO_TOWN /\ itn_df[1].Distributed_ITNs = 40
    /\ itn_df[2].Chiefdom = S_BAGBO /\ itn_df[2].Distributed_ITNs = 22
    /\ summary_data[1].Name = S_BO /\ summary_data[1].Total_Enrollment = 80

\* Rows of itn_df whose district is d, letter case aside, and whose
\* canonical chiefdom is c.
RowsOf(d, c) ==
    {i \in DOMAIN itn_df :
        /\ itn_df[i].District # None
        /\ upper(itn_df[i].District) = upper(d)
        /\ itn_df[i].Chiefdom = c}

\* The chiefdom-level statistics reported so far: the rows of the detailed
\* table and the chiefdom entries of the summary.
ChiefdomStatistics ==
    (IF After("detailed")
         THEN {[District |-> r.District, Chiefdom |-> r.Chiefdom,
                Total_Enrollment |-> r.Total_Enrollment,
                ITNs_Distributed |-> r.ITNs_Distributed] :
                  r \in SeqRange(detailed_itn_coverage)}
         ELSE {})
    \cup
    (IF After("summary")
         THEN {[District |-> e.District, Chiefdom |-> e.Name,
                Total_Enrollment |-> e.Total_Enrollment,
                ITNs_Distributed |-> e.ITNs_Distributed] :
                  e \in {x \in SeqRange(summary_data) : x.Level = "Chiefdom"}}
         ELSE {})

\* C12: the enrollment and the distributed count of every chiefdom-level
\* statistic for (D, C) are the sums of Total_Enrollment and of
\* Distributed_ITNs over exactly the rows whose district is D (letter case
\* aside) and whose canonical chiefdom is C: rows of another district with
\* the same chiefdom name are not included, and no statistic is made for
\* the rows with a null chiefdom.
C12_ChiefdomGroupsNestedInDistrict ==
    \A s \in ChiefdomStatistics :
        /\ s.Chiefdom # None
        /\ RowsOf(s.District, s.Chiefdom) # {}
        /\ s.Total_Enrollment =
               SumFn([i \in RowsOf(s.District, s.Chiefdom) |-> itn_df[i].Total_Enrollment])
        /\ s.ITNs_Distributed =
               SumFn([i \in RowsOf(s.District, s.Chiefdom) |-> itn_df[i].Distributed_ITNs])

\* The script has finished on a school of Bo district that names Gbanti, a
\* school of Gbanti in Bombali and a school of Bo without chiefdom: GBANTI
\* is listed under each district with that district's school only.
C12_Witness ==
    /\ pc = "done"
    /\ \E i, j, k \in DOMAIN itn_df :
          /\ itn_df[i].District = S_BO /\ itn_df[i].Chiefdom = S_GBANTI
          /\ itn_df[j].District = S_BOMBALI /\ itn_df[j].Chiefdom = S_GBANTI
          /\ itn_df[k].District = S_BO /\ itn_df[k].Chiefdom = None
          /\ itn_df[k].Total_Enrollment = 6
    /\ \E s, t \in ChiefdomStatistics :
          /\ s.District = S_BO /\ s.Chiefdom = S_GBANTI
          /\ s.Total_Enrollment = 10 /\ s.ITNs_Distributed = 4
          /\ t.District = S_BOMBALI /\ t.Chiefdom = S_GBANTI
          /\ t.Total_Enrollment = 20 /\ t.ITNs_Distributed = 20
    /\ Cardinality({s \in ChiefdomStatistics : s.District = S_BO}) = 1

\* The district entries of the summary.
DistrictStatistics ==
    {e \in SeqRange(summary_data) : e.Level = "District"}

\* Sum of a field over the district entries of the summary.
DistrictStatisticsSum(field) ==
    SumFn([e \in DistrictStatistics |-> e[field]])

\* The district statistics add up to the overall totals, in the summary and
\* in the analysis metrics.
DistrictTotalsAddUp ==
    /\ DistrictStatisticsSum("Total_Enrollment") = overview.Total_Enrollment
    /\ DistrictStatisticsSum("ITNs_Distributed") = overview.ITNs_Distributed
    /\ analysis.bo.Total_Enrollment + analysis.bombali.Total_Enrollment
           = analysis.overall.Total_Enrollment
    /\ analysis.bo.ITNs_Distributed + analysis.bombali.ITNs_Distributed
           = analysis.overall.ITNs_Distributed

\* The row's district is BO or BOMBALI, letter case aside.
InTargetDistrict(row) ==
    row.District # None /\ upper(row.District) \in {S_BO, S_BOMBALI}

\* C13 as stated: for every row set in which every row has a non-null
\* district, the district-level enrollment totals and the district-level
\* distributed totals over all reported district statistics sum to the
\* overall totals.
C13_DistrictTotalsSumToOverall ==
    (After("summary") /\ \A i \in DOMAIN itn_df : itn_df[i].District # None)
        => DistrictTotalsAddUp

\* C13, amended: for every row set in which the district of every row is
\* BO or BOMBALI, letter case aside, the district-level enrollment totals
\* and the district-level distributed totals sum to the overall totals;
\* there is no district statistic for another district.
C13_TargetDistrictTotalsSumToOverall ==
    After("summary") =>
        /\ (\A i \in DOMAIN itn_df : InTargetDistrict(itn_df[i])) => DistrictTotalsAddUp
        /\ \A e \in DistrictStatistics : e.Name \in {S_BO, S_BOMBALI}

\* The script has finished on schools of Bo and of Bombali, the latter
\* written "Bombali": the two district entries sum to the overall totals.
C13_Witness ==
    /\ pc = "done"
    /\ \A i \in DOMAIN itn_df : InTargetDistrict(itn_df[i])
    /\ \E i, j \in DOMAIN itn_df :
          /\ itn_df[i].District = S_BO /\ itn_df[i].Total_Enrollment > 0
          /\ itn_df[j].District = S_Bombali /\ itn_df[j].Total_Enrollment > 0
    /\ \E a, b \in DistrictStatistics :
          /\ a.Name = S_BO /\ b.Name = S_BOMBALI
          /\ a.Total_Enrollment > 0 /\ b.Total_Enrollment > 0
          /\ a.Total_Enrollment + b.Total_Enrollment = overview.Total_Enrollment

(***************************************************************************)
(* Properties of the parsing of the QR text, checked under SpecPayloads.   *)
(***************************************************************************)

\* Positions at which the label starts in the text.
LabelPositions(label, text) ==
    {p \in 1..(Len(text) - Len(label) + 1) : SubSeq(text, p, p + Len(label) - 1) = label}

\* The text between the first occurrence of the label and the end of the
\* line the label is on.
RestOfLine(label, text) ==
    LET start == Min(LabelPositions(label, text)) + Len(label)
        newlines == {q \in start..Len(text) : text[q] = 10}
        stop == IF newlines = {} THEN Len(text) ELSE Min(newlines) - 1
    IN  SubSeq(text, start, stop)

\* What the label's line states: null for a text without the label, else
\* the rest of the label's line, trimmed.
StatedValue(label, text) ==
    IF LabelPositions(label, text) = {} THEN None
    ELSE strip(RestOfLine(label, text))

\* The value is what the label's line states; for a line with nothing but
\* whitespace after the label, null is accepted as well.
ValueOfLine(value, label, text) ==
    \/ value = StatedValue(label, text)
    \/ StatedValue(label, text) = <<>> /\ value = None

\* C14: for "District:" and for "Chiefdom:", the extracted value is the
\* text that follows the label up to the end of the same line, trimmed, and
\* never text of a following line; a payload without the label gives null
\* for that field whatever the other field is, and a null chiefdom stays
\* null through map_chiefdom_name.
C14_ValueIsRestOfLabelLine ==
    \A i \in EmittedWithPayload :
        /\ ValueOfLine(districts[i], label_District, df[i].qr)
        /\ \E original_chiefdom \in {None, StatedValue(label_Chiefdom, df[i].qr)} :
              /\ ValueOfLine(original_chiefdom, label_Chiefdom, df[i].qr)
              /\ chiefdoms[i] = map_chiefdom_name(original_chiefdom, create_chiefdom_mapping)

\* All the text after the first "Chiefdom:" of the payload is whitespace,
\* and there is some.
BlankChiefdom(text) ==
    /\ LabelPositions(label_Chiefdom, text) # {}
    /\ LET start == Min(LabelPositions(label_Chiefdom, text)) + Len(label_Chiefdom)
       IN  /\ start <= Len(text)
           /\ \A q \in start..Len(text) : text[q] \in Whitespace

\* C16: a record whose chiefdom value is blank is not attributed to a named
\* chiefdom: for a payload whose "Chiefdom:" label is followed only by
\* whitespace, the chiefdom of the row, which is map_chiefdom_name of the
\* empty text when the label's line holds a blank, is no canonical value of
\* the alias table, and no chiefdom statistic counts the row.
C16_BlankChiefdomIsNoNamedChiefdom ==
    \A i \in EmittedWithPayload :
        BlankChiefdom(df[i].qr) =>
            /\ chiefdoms[i] \notin CanonicalValues
            /\ \A s \in ChiefdomStatistics : i \notin RowsOf(s.District, s.Chiefdom)

(***************************************************************************)
(* Further properties of the tables, checked under SpecAggregation.        *)
(***************************************************************************)

\* The panels drawn so far for the district.
PanelsOf(district_name) ==
    IF district_name = S_BO /\ After("dashboard_BO") THEN SeqRange(fig_bo_itn)
    ELSE IF district_name = S_BOMBALI /\ After("dashboard_BOMBALI") THEN SeqRange(fig_bombali_itn)
    ELSE {}

\* C17: every extracted row has Total_ITNs = Distributed_ITNs, so for every
\* district D and chiefdom C the distributed count and the enrollment on
\* the dashboard panel of (D, C), summed from Total_ITNs, are the ones the
\* detailed table and the summary show for (D, C), summed from
\* Distributed_ITNs.
C17_PanelsAgreeWithTables ==
    /\ \A i \in 1..Len(total_itns) : total_itns[i] = distributed_itns[i]
    /\ \A i \in DOMAIN itn_df : itn_df[i].Total_ITNs = itn_df[i].Distributed_ITNs
    /\ \A d \in {S_BO, S_BOMBALI} :
          \A p \in PanelsOf(d), s \in ChiefdomStatistics :
              (s.District = d /\ s.Chiefdom = p.chiefdom) =>
                  /\ p.itns_total = s.ITNs_Distributed
                  /\ p.enrollment_total = s.Total_Enrollment

\* The script has finished on a spreadsheet with record A, whose school
\* kept 5 nets: the BO TOWN panel and the BO TOWN rows of the tables show 40
\* nets for 50 pupils.
C17_Witness ==
    /\ pc = "done"
    /\ \E i \in DOMAIN df : df[i] = RecordA /\ itn_df[i].Total_ITNs = 40
    /\ \E p \in PanelsOf(S_BO), s \in ChiefdomStatistics :
          /\ s.District = S_BO /\ s.Chiefdom = S_BO_TOWN /\ p.chiefdom = S_BO_TOWN
          /\ p.itns_total = 40 /\ s.ITNs_Distributed = 40
          /\ p.enrollment_total = 50 /\ s.Total_Enrollment = 50

\* Positions of the listing (detailed table or chiefdom part of the
\* summary) that show the chiefdom c of the district d.
DetailedPositions(d, c) ==
    {k \in DOMAIN detailed_itn_coverage :
        detailed_itn_coverage[k].District = d /\ detailed_itn_coverage[k].Chiefdom = c}

SummaryPositions(d, c) ==
    {k \in DOMAIN summary_data :
        /\ summary_data[k].Level = "Chiefdom"
        /\ summary_data[k].District = d /\ summary_data[k].Name = c}

\* Rows i and j are two schools of the target district d whose payloads
\* spell the chiefdom differently and whose canonical chiefdom is the same.
SameChiefdomTwoSpellings(i, j, d) ==
    /\ df[i].qr # None /\ df[j].qr # None
    /\ itn_df[i].District # None /\ upper(itn_df[i].District) = d
    /\ itn_df[j].District # None /\ upper(itn_df[j].District) = d
    /\ StatedValue(label_Chiefdom, df[i].qr) # StatedValue(label_Chiefdom, df[j].qr)
    /\ itn_df[i].Chiefdom # None
    /\ itn_df[i].Chiefdom = itn_df[j].Chiefdom

\* C18: two rows of the same district whose raw chiefdom spellings differ
\* but resolve to the same canonical name, as "Gbanti (Bombali)" and
\* "Gbanti" do, are aggregated into one chiefdom statistic, whose
\* enrollment and distributed count are sums that include both rows, and
\* the chiefdom appears exactly once in the chiefdom listing of the
\* district.
C18_AliasesMergeIntoOneGroup ==
    After("summary") =>
        \A d \in {S_BO, S_BOMBALI} : \A i, j \in DOMAIN itn_df :
            SameChiefdomTwoSpellings(i, j, d) =>
                LET c == itn_df[i].Chiefdom
                    group == RowsOf(d, c)
                IN  /\ {i, j} \subseteq group
                    /\ Cardinality(DetailedPositions(d, c)) = 1
                    /\ Cardinality(SummaryPositions(d, c)) = 1
                    /\ \A s \in {detailed_itn_coverage[k] : k \in DetailedPositions(d, c)}
                               \cup {summary_data[k] : k \in SummaryPositions(d, c)} :
                          /\ s.Total_Enrollment =
                                 SumFn([r \in group |-> itn_df[r].Total_Enrollment])
                          /\ s.ITNs_Distributed =
                                 SumFn([r \in group |-> itn_df[r].Distributed_ITNs])

\* The script has finished on a school of "Gbanti (Bombali)" with 40 pupils
\* and 10 nets and a school of "Gbanti" with 20 pupils and 20 nets: BOMBALI
\* lists GBANTI once, with 60 pupils and 30 nets.
C18_Witness ==
    /\ pc = "done"
    /\ Len(df) = 2
    /\ SameChiefdomTwoSpellings(1, 2, S_BOMBALI)
    /\ StatedValue(label_Chiefdom, df[1].qr) = S_Gbanti_Bombali
    /\ StatedValue(label_Chiefdom, df[2].qr) = S_Gbanti
    /\ Len(detailed_itn_coverage) = 1
    /\ detailed_itn_coverage[1].Chiefdom = S_GBANTI
    /\ detailed_itn_coverage[1].Total_Enrollment = 60
    /\ detailed_itn_coverage[1].ITNs_Distributed = 30
    /\ Cardinality(SummaryPositions(S_BOMBALI, S_GBANTI)) = 1

\* The frame with its rows in the order given by a permutation of its
\* positions.
Permuted(frame, order) ==
    [k \in DOMAIN frame |-> frame[order[k]]]

\* The rows of the frame at the given positions, in the frame's order.
RECURSIVE RowsAt(_, _)
RowsAt(frame, positions) ==
    IF positions = {} THEN <<>>
    ELSE <<frame[Min(positions)]>> \o RowsAt(frame, positions \ {Min(positions)})

\* The enrollment and the distributed count of a statistic.
Counts(t) ==
    <<t.Total_Enrollment, t.ITNs_Distributed>>

\* The (district, chiefdom) pairs of the two districts and of the chiefdoms
\* named in the frame.
Groups ==
    {<<d, c>> : d \in {S_BO, S_BOMBALI},
                c \in {itn_df[i].Chiefdom : i \in DOMAIN itn_df} \ {None}}

\* The overall, district-level and chiefdom-level counts computed on a
\* frame, the chiefdom level for the groups of itn_df.
CountsAtEveryLevel(frame) ==
    [overall |-> Counts(overall_totals(frame)),
     districts |-> [k \in DOMAIN TargetDistricts |->
                       Counts(district_totals(frame, TargetDistricts[k]))],
     chiefdoms |-> [g \in Groups |-> Counts(chiefdom_totals(frame, g[1], g[2]))]]

\* Level by level, the counts a are the counts b plus the counts c.
IsSumOfCounts(a, b, c) ==
    /\ a.overall = <<b.overall[1] + c.overall[1], b.overall[2] + c.overall[2]>>
    /\ \A k \in DOMAIN a.districts :
          a.districts[k] = <<b.districts[k][1] + c.districts[k][1],
                             b.districts[k][2] + c.districts[k][2]>>
    /\ \A g \in DOMAIN a.chiefdoms :
          a.chiefdoms[g] = <<b.chiefdoms[g][1] + c.chiefdoms[g][1],
                             b.chiefdoms[g][2] + c.chiefdoms[g][2]>>

\* The counts the script has reported, level by level.
ReportedCounts ==
    [overall |-> Counts(overview),
     districts |-> [k \in DOMAIN TargetDistricts |-> Counts(summary_data[k])],
     chiefdoms |-> [g \in Groups |->
                       IF SummaryPositions(g[1], g[2]) = {} THEN <<0, 0>>
                       ELSE Counts(summary_data[Min(SummaryPositions(g[1], g[2]))])]]

\* C19: the aggregation is independent of the order of the rows and
\* mergeable: the overall, district-level and chiefdom-level enrollment and
\* distributed totals reported for the rows are the totals computed on any
\* permutation of the rows, and are the sums of the totals computed
\* separately on the two parts of any partition of the rows.
C19_OrderIndependentAndMergeable ==
    After("summary") =>
        /\ ReportedCounts = CountsAtEveryLevel(itn_df)
        /\ analysis.overall.Total_Enrollment = overview.Total_Enrollment
        /\ <<Counts(analysis.bo), Counts(analysis.bombali)>> = ReportedCounts.districts
        /\ \A order \in Permutations(DOMAIN itn_df) :
              CountsAtEveryLevel(Permuted(itn_df, order)) = ReportedCounts
        /\ \A part \in SUBSET (DOMAIN itn_df) :
              IsSumOfCounts(ReportedCounts,
                            CountsAtEveryLevel(RowsAt(itn_df, part)),
                            CountsAtEveryLevel(RowsAt(itn_df, DOMAIN itn_df \ part)))

\* The script has finished on three schools with different counts, two of
\* them in the same chiefdom of Bombali and the third in Bo: a permutation
\* moves the rows, and a partition splits the chiefdom.
C19_Witness ==
    /\ pc = "done"
    /\ Len(itn_df) = 3
    /\ itn_df[1].District = S_Bombali /\ itn_df[1].Chiefdom = S_GBANTI
    /\ itn_df[2].District = S_BO /\ itn_df[2].Chiefdom = S_BO_TOWN
    /\ itn_df[3].District = S_BOMBALI /\ itn_df[3].Chiefdom = S_GBANTI
    /\ itn_df[1].Total_Enrollment # itn_df[3].Total_Enrollment
    /\ \E order \in Permutations(DOMAIN itn_df) : Permuted(itn_df, order) # itn_df
    /\ ReportedCounts.chiefdoms[<<S_BOMBALI, S_GBANTI>>] = <<60, 30>>
    /\ CountsAtEveryLevel(RowsAt(itn_df, {1, 2})).chiefdoms[<<S_BOMBALI, S_GBANTI>>] = <<40, 10>>
    /\ CountsAtEveryLevel(RowsAt(itn_df, {3})).chiefdoms[<<S_BOMBALI, S_GBANTI>>] = <<20, 20>>

\* a comes before b in alphabetical order: a is a proper beginning of b, or
\* at the first place where they differ a has the smaller character.
Alphabetically(a, b) ==
    \E k \in 0..Len(a) :
        /\ k <= Len(b)
        /\ SubSeq(a, 1, k) = SubSeq(b, 1, k)
        /\ \/ k = Len(a) /\ k < Len(b)
           \/ k < Len(a) /\ k < Len(b) /\ a[k + 1] < b[k + 1]

\* The chiefdom part of the summary: the entries after the district entries.
SummaryChiefdomPositions ==
    {k \in DOMAIN summary_data : summary_data[k].Level = "Chiefdom"}

\* The (district, chiefdom) pairs present in the rows, for the two districts.
PresentPairs ==
    {g \in Groups : RowsOf(g[1], g[2]) # {}}

\* C20: in the detailed coverage table and in the chiefdom part of the
\* summary, the chiefdom rows of each district are in strictly ascending
\* alphabetical order of canonical name, each (district, chiefdom) pair
\* present in the rows appears exactly once and no other pair appears, and
\* the listing is the same for every order of the input rows.
C20_ChiefdomListingsSorted ==
    After("summary") =>
        /\ \A k, l \in DOMAIN detailed_itn_coverage :
              (k < l /\ detailed_itn_coverage[k].District = detailed_itn_coverage[l].District)
                  => Alphabetically(detailed_itn_coverage[k].Chiefdom,
                                    detailed_itn_coverage[l].Chiefdom)
        /\ \A k, l \in SummaryChiefdomPositions :
              (k < l /\ summary_data[k].District = summary_data[l].District)
                  => Alphabetically(summary_data[k].Name, summary_data[l].Name)
        /\ \A g \in PresentPairs :
              /\ Cardinality(DetailedPositions(g[1], g[2])) = 1
              /\ Cardinality(SummaryPositions(g[1], g[2])) = 1
        /\ Len(detailed_itn_coverage) = Cardinality(PresentPairs)
        /\ Cardinality(SummaryChiefdomPositions) = Cardinality(PresentPairs)
        /\ \A order \in Permutations(DOMAIN itn_df) :
              /\ detailed_rows(Permuted(itn_df, order), 1) = detailed_itn_coverage
              /\ generate_simple_summary(Permuted(itn_df, order)) = summary_data

\* The script has finished on schools of Bo Town, Gbanti and Bagbo, all in
\* Bo district and entered in this order: the table lists BAGBO, BO TOWN,
\* GBANTI.
C20_Witness ==
    /\ pc = "done"
    /\ Len(itn_df) = 3
    /\ \A i \in DOMAIN itn_df : itn_df[i].District = S_BO
    /\ <<itn_df[1].Chiefdom, itn_df[2].Chiefdom, itn_df[3].Chiefdom>>
           = <<S_BO_TOWN, S_GBANTI, S_BAGBO>>
    /\ Len(detailed_itn_coverage) = 3
    /\ <<detailed_itn_coverage[1].Chiefdom, detailed_itn_coverage[2].Chiefdom,
         detailed_itn_coverage[3].Chiefdom>> = <<S_BAGBO, S_BO_TOWN, S_GBANTI>>
    /\ <<summary_data[3].Name, summary_data[4].Name, summary_data[5].Name>>
           = <<S_BAGBO, S_BO_TOWN, S_GBANTI>>

\* Positions of the summary that hold the statistic of the district.
DistrictPositions(name) ==
    {k \in DOMAIN summary_data :
        summary_data[k].Level = "District" /\ summary_data[k].Name = name}

\* Rows with a non-null district.
RowsWithDistrict ==
    {i \in DOMAIN itn_df : itn_df[i].District # None}

\* The first row with a district is of BOMBALI and a later row is of BO.
BombaliSeenBeforeBo ==
    /\ RowsWithDistrict # {}
    /\ upper(itn_df[Min(RowsWithDistrict)].District) = S_BOMBALI
    /\ \E i \in RowsWithDistrict : upper(itn_df[i].District) = S_BO

\* C21 as stated: the district-level statistics are emitted in the
\* first-seen order of the district across the rows: if the first row with
\* a non-null district belongs to BOMBALI and a later row belongs to BO,
\* the BOMBALI statistic precedes the BO statistic.
C21_DistrictsInFirstSeenOrder ==
    (After("summary") /\ BombaliSeenBeforeBo) =>
        \A k \in DistrictPositions(S_BOMBALI), l \in DistrictPositions(S_BO) : k < l

\* C21, amended: the district-level statistics are emitted in the fixed
\* order BO, BOMBALI, at the head of the summary, one entry each, whatever
\* the order of the rows and whether or not a district has rows.
C21_DistrictsInFixedOrder ==
    After("summary") =>
        /\ DistrictPositions(S_BO) = {1}
        /\ DistrictPositions(S_BOMBALI) = {2}
        /\ \A k \in DOMAIN summary_data : summary_data[k].Level = "District" => k \in {1, 2}
        /\ \A order \in Permutations(DOMAIN itn_df) :
              SubSeq(generate_simple_summary(Permuted(itn_df, order)), 1, 2)
                  = SubSeq(summary_data, 1, 2)

\* The script has finished on a school of Bombali followed by a school of
\* Bo: the BO statistic is first, the BOMBALI statistic second, both with
\* pupils.
C21_Witness ==
    /\ pc = "done"
    /\ BombaliSeenBeforeBo
    /\ itn_df[1].District = S_BOMBALI
    /\ summary_data[1].Name = S_BO /\ summary_data[1].Total_Enrollment > 0
    /\ summary_data[2].Name = S_BOMBALI /\ summary_data[2].Total_Enrollment > 0

=============================================================================
